---- MODULE Spec2Model ----
(***************************************************************************)
(* Model of the lazy server registry of the hierarchical MCP router        *)
(* (internal/hierarchy/hierarchy.go: ServerRegistry.GetOrLoadServer and    *)
(* ServerRegistry.Close) together with the background ping task of a       *)
(* downstream client (client.go: Client.startPingTask, which the registry  *)
(* starts as StartPingTask of its client package).                         *)
(*                                                                         *)
(* Every caller is one goroutine executing one GetOrLoadServer call with   *)
(* its own request context.  The client object a caller constructs is      *)
(* identified by the caller's number, so a handle is a caller number.      *)
(*                                                                         *)
(* Seven specifications share the variables:                               *)
(*   Spec         concurrent GetOrLoadServer calls, Close, the ping task;  *)
(*   SpecSession  the two meta-tools of the recursive proxy                *)
(*                (internal/server/server.go: StartHTTPServer) serving the *)
(*                requests of one session one after another, with          *)
(*                Hierarchy.HandleExecuteTool running the registry steps   *)
(*                of Spec and the downstream CallTool under its 15 s       *)
(*                timeout, on a clock;                                     *)
(*   SpecResolve  Hierarchy.ResolveToolPath applied to a tool path over a  *)
(*                family of loaded hierarchies;                            *)
(*   SpecLoad     LoadHierarchy walking a directory of node files into the *)
(*                store, then Hierarchy.HandleGetToolsInCategory and       *)
(*                ResolveToolPath navigating the store it built;           *)
(*   SpecRepeat   several HandleGetToolsInCategory calls with one path     *)
(*                over a store with two leaf children of one category;     *)
(*   SpecPing     the loop of Client.startPingTask ping by ping, with the  *)
(*                outcome of every ping recorded;                          *)
(*   SpecLazy     startHTTPServer in the per-server lazy mode (client.go:  *)
(*                addToMCPServer, registerMetaTool, activateTools) with    *)
(*                concurrent callers of activate_<name>.                   *)
(***************************************************************************)
EXTENDS Integers, Sequences, FiniteSets, TLC

\* Number of concurrent GetOrLoadServer callers (each makes one call).
NumCallers == 3

\* Cap on the ping task's failure counter (the int in the code is unbounded).
MaxFail == 2

\* Pings whose outcomes SpecPing records for one ping task.
MaxPings == 4

\* Seconds of context.WithTimeout(ctx, 15*time.Second) in HandleExecuteTool.
Timeout == 15

\* The clock of SpecSession: the downstream takes multiples of Quantum
\* seconds (or until a timer fires) and the clock stops at MaxTime.
Quantum == 5
MaxTime == 30

\* Longest tool path (in segments) that SpecResolve resolves.
MaxParts == 3

Callers == 1..NumCallers

\* No caller holds the registry mutex / no handle.
NoOne == 0

\* Names a caller may ask for; "ghost" has no entry in the config table.
ServerNames == {"local", "remote", "ghost"}

\* The server-config table handed to NewServerRegistry: name -> transport.
ServerConfigs == [n \in {"local", "remote"} |->
                    IF n = "local" THEN "stdio" ELSE "sse"]

\* Mutant: every client is started by hand.
NeedManualStart_always(transport) == TRUE

\* newMCPClient: only SSE and streamable-HTTP clients set needManualStart.
NeedManualStart(transport) == transport \in {"sse", "streamable-http"}

\* newMCPClient: only SSE and streamable-HTTP clients set needPing.
NeedPing(transport) == transport \in {"sse", "streamable-http"}

----------------------------------------------------------------------------
\* Strings, the hierarchy store and the pure functions over it.
\*
\* A Go string is modelled by what strings.Split(s, ".") returns for it: the
\* non-empty sequence of its dot-free segments.  The empty string is <<"">>,
\* and s + "." + t is the concatenation of the two sequences.

EmptyStr == <<"">>
Slash == <<"/">>

\* strings.Join(parts, "."): joining no parts gives the empty string.
Join(parts) == IF parts = << >> THEN EmptyStr ELSE parts

\* strings.Trim(s, "."): leading and trailing dots are cut off.
RECURSIVE TrimLeft(_)
TrimLeft(s) == IF Len(s) > 1 /\ s[1] = "" THEN TrimLeft(Tail(s)) ELSE s

RECURSIVE TrimRight(_)
TrimRight(s) ==
    IF Len(s) > 1 /\ s[Len(s)] = "" THEN TrimRight(SubSeq(s, 1, Len(s) - 1)) ELSE s

\* Mutant: only leading dots are cut off.
Trim_leftOnly(s) == TrimLeft(s)

Trim(s) == TrimRight(TrimLeft(s))

\* strings.HasPrefix(s, prefix + ".")
HasDotPrefix(s, prefix) ==
    Len(s) > Len(prefix) /\ SubSeq(s, 1, Len(prefix)) = prefix

\* loadNode: a tool given as a JSON object becomes a ToolDefinition; maps_to
\* defaults to the tool's name, server to "".
ToolDefinition(mapsTo, server) == [MapsTo |-> mapsTo, Server |-> server]

\* A HierarchyNode: its overview, its Tools map and the name of its
\* mcp_server ("" for nil).
HierarchyNode(tools, mcpServer) ==
    [Overview |-> "", Tools |-> tools, MCPServer |-> mcpServer]

\* The store LoadHierarchy builds for the session: root.json with the two
\* meta-tools (no server), and three leaf files.  "files" is served by the
\* stdio server, "web" by the SSE server; "lab" has one tool whose server is
\* not in the config table and one tool without any server.
SessionHierarchy ==
    LET root == HierarchyNode(
                    [n \in {"get_tools_in_category", "execute_tool"} |->
                        ToolDefinition(n, "")], "")
        files == HierarchyNode(
                    [n \in {"read"} |-> ToolDefinition("read_file", "local")], "local")
        web == HierarchyNode(
                    [n \in {"fetch"} |-> ToolDefinition("fetch", "remote")], "remote")
        lab == HierarchyNode(
                    [n \in {"probe", "orphan"} |->
                        ToolDefinition(n, IF n = "probe" THEN "ghost" ELSE "")], "")
    IN [k \in {EmptyStr, Slash, <<"files">>, <<"web">>, <<"lab">>} |->
           IF k \in {EmptyStr, Slash} THEN root
           ELSE IF k = <<"files">> THEN files
           ELSE IF k = <<"web">> THEN web ELSE lab]

\* Segment names of the hierarchies and tool paths of SpecResolve.
Segs == {"a", "b"}

\* The Tools maps over the given names whose tools name the given servers.
ToolMaps(names, servers) ==
    UNION {{[n \in ns |-> ToolDefinition(n, f[n])] : f \in [ns -> servers]} :
              ns \in SUBSET names}

NoFile == HierarchyNode(<< >>, "no file")

\* The stores LoadHierarchy can build from a directory with a root.json and,
\* optionally, the files a/a.json and a/b/b.json: h.nodes[""] and
\* h.nodes["/"] are the root node, every other file is a node under its key.
\* A file a/b/b.json is loaded whether or not a/a.json exists.
Hierarchies ==
    {[k \in {EmptyStr, Slash}
            \cup (IF a = NoFile THEN {} ELSE {<<"a">>})
            \cup (IF ab = NoFile THEN {} ELSE {<<"a", "b">>}) |->
         IF k \in {EmptyStr, Slash} THEN root ELSE IF k = <<"a">> THEN a ELSE ab] :
       root \in {HierarchyNode(t, "") : t \in ToolMaps(Segs, {"", "local", "ghost"})},
       a \in {NoFile} \cup
             {HierarchyNode(t, m) : t \in ToolMaps(Segs, {"", "local", "ghost"}),
                                    m \in {"", "remote"}},
       ab \in {NoFile} \cup
              {HierarchyNode(t, m) : t \in ToolMaps({"b"}, {"", "local", "ghost"}),
                                     m \in {"", "local"}}}

\* Tool paths of up to MaxParts segments, and the strings "" and "/".
RECURSIVE PathsOfLen(_)
PathsOfLen(n) ==
    IF n = 0 THEN {<< >>}
    ELSE {Append(q, x) : q \in PathsOfLen(n - 1), x \in Segs}

ToolPaths ==
    {EmptyStr, Slash} \cup UNION {PathsOfLen(n) : n \in 1..MaxParts}

\* "node, exists := h.nodes[key]; tool, ok := node.Tools[name]"
HasTool(h, key, name) == key \in DOMAIN h /\ name \in DOMAIN h[key].Tools

\* ResolveToolPath, strategy 2 (lines 365-389): the loop "for i := len(parts)-1;
\* i >= 0; i--" from index i on.  At i = 0 the category is the root and the
\* tool name looked up there is parts[0]; at every other i the category is
\* parts[:i] and the tool name is the last part.  Returns <<category, name>>
\* of the first hit, << >> when the loop ends without one.
RECURSIVE PrefixSearch(_, _, _)
PrefixSearch(h, parts, i) ==
    LET categoryPath == IF i = 0 THEN EmptyStr ELSE Join(SubSeq(parts, 1, i))
        toolName == IF i = 0 THEN parts[1] ELSE parts[Len(parts)]
    IN IF HasTool(h, categoryPath, toolName) THEN <<categoryPath, toolName>>
       ELSE IF i = 0 THEN << >>
       ELSE PrefixSearch(h, parts, i - 1)

NotFound == [err |-> "tool not found", host |-> << >>, name |-> "",
             tool |-> ToolDefinition("", ""), server |-> ""]

\* Mutant: the server of a tool without one is taken from the node's mcp_server.
ServerOf_fromNode(h, host, name) ==
    IF h[host].Tools[name].Server # "" THEN h[host].Tools[name].Server
    ELSE h[host].MCPServer

\* Line 398: the server name returned is the found tool's Server field.
ServerOf(h, host, name) == h[host].Tools[name].Server

\* Hierarchy.ResolveToolPath (lines 341-399): strategy 1 looks in the node
\* at the full path for a tool named like the last part, strategy 2 walks
\* the prefixes.  The result names the node and the key under which the
\* returned *ToolDefinition is stored.
ResolveToolPath(h, toolPath) ==
    LET parts == toolPath
        lastPart == parts[Len(parts)]
        hit == IF HasTool(h, toolPath, lastPart) THEN <<toolPath, lastPart>>
               ELSE PrefixSearch(h, parts, Len(parts) - 1)
    IN IF hit = << >> THEN NotFound
       ELSE [err |-> "", host |-> hit[1], name |-> hit[2],
             tool |-> h[hit[1]].Tools[hit[2]],
             server |-> ServerOf(h, hit[1], hit[2])]

\* Mutant: every node below path counts as a direct child.
IsDirectChild_anyDepth(path, nodePath) ==
    path = EmptyStr \/ HasDotPrefix(nodePath, path)

\* HandleGetToolsInCategory, lines 248-267: nodePath is a direct child of path.
IsDirectChild(path, nodePath) ==
    IF path = EmptyStr THEN Len(nodePath) = 1
    ELSE HasDotPrefix(nodePath, path) /\ Len(nodePath) = Len(path) + 1

\* Hierarchy.HandleGetToolsInCategory (lines 219-337): the set of responses
\* the call can return; the map h.nodes is ranged over in no fixed order, so
\* of two leaf children with a tool of one name either may provide the
\* aggregated entry.  Overviews and descriptions are left out.
HandleGetToolsInCategory(h, rawPath) ==
    LET path == Trim(IF rawPath = Slash THEN EmptyStr ELSE rawPath)
    IN IF path \notin DOMAIN h
         THEN {[err |-> "category not found", path |-> path,
                children |-> << >>, tools |-> << >>]}
         ELSE LET kids == {k \in DOMAIN h :
                             k # path /\ k # EmptyStr /\ IsDirectChild(path, k)}
                  leaves == {k \in kids : DOMAIN h[k].Tools # {}}
                  children ==
                      [c \in {k[Len(k)] : k \in kids} |->
                          LET k == CHOOSE x \in kids : x[Len(x)] = c
                          IN [is_leaf |-> k \in leaves,
                              tool_count |-> Cardinality(DOMAIN h[k].Tools)]]
                  aggNames == UNION {DOMAIN h[k].Tools : k \in leaves}
                  aggregated ==
                      {[n \in aggNames |-> f[n]] :
                          f \in {g \in [aggNames -> leaves] :
                                   \A n \in aggNames : n \in DOMAIN h[g[n]].Tools}}
                  direct ==
                      [n \in DOMAIN h[path].Tools |->
                          IF path = EmptyStr THEN <<n>> ELSE path \o <<n>>]
                  tools ==
                      IF DOMAIN h[path].Tools # {} THEN {direct}
                      ELSE IF leaves = kids /\ aggNames # {} THEN aggregated
                      ELSE {<< >>}
              IN {[err |-> "", path |-> path, children |-> children, tools |-> t] :
                     t \in tools}

----------------------------------------------------------------------------
\* Requests to the outward MCP server and the handlers' argument parsing.

\* JSON values of request.Params.Arguments, by type; the payload is a
\* string for a JSON string and a token sequence for an object.
JAbsent == [t |-> "absent", v |-> << >>]
JStr(str) == [t |-> "string", v |-> str]
JNum == [t |-> "number", v |-> << >>]
JObj(o) == [t |-> "object", v |-> o]

\* A tools/call request: the tool named, whether Params.Arguments is nil, a
\* JSON object ("map") or something else, and the entries of the object.
Request(tool, args, toolPath, arguments, path) ==
    [tool |-> tool, args |-> args, tool_path |-> toolPath,
     arguments |-> arguments, path |-> path]

NoRequest == Request("", "nil", JAbsent, JAbsent, JAbsent)

\* "make(map[string]interface{})"
EmptyObject == << >>

\* 'if v, ok := argsMap[key].(string); ok { x = v }' with x := "" before it.
StringArg_coerce(request, key) ==
    IF request.args = "map" /\ request[key].t # "absent"
      THEN IF request[key].t = "string" THEN request[key].v ELSE <<request[key].t>>
      ELSE EmptyStr

StringArg(request, key) ==
    IF request.args = "map" /\ request[key].t = "string"
      THEN request[key].v
      ELSE EmptyStr

\* 'if argsVal, ok := argsMap["arguments"].(map[string]interface{}); ok'
ObjectArg(request) ==
    IF request.args = "map" /\ request.arguments.t = "object"
      THEN request.arguments.v
      ELSE EmptyObject

\* The execute_tool requests of a session: Params.Arguments nil or no
\* object; tool_path missing, a number, or empty; a tool of the stdio server
\* with arguments given, missing and mistyped; a tool of the SSE server; a
\* tool of an unconfigured server; a tool without server; a meta-tool; a
\* path that names no tool.
ExecuteRequests ==
    {Request("execute_tool", "nil", JAbsent, JAbsent, JAbsent),
     Request("execute_tool", "other", JAbsent, JAbsent, JAbsent)}
    \cup {Request("execute_tool", "map", tp, JObj(<<"x">>), JAbsent) :
             tp \in {JAbsent, JNum, JStr(EmptyStr)}}
    \cup {Request("execute_tool", "map", JStr(<<"files", "read">>), a, JAbsent) :
             a \in {JObj(<<"x">>), JAbsent, JStr(<<"x">>)}}
    \cup {Request("execute_tool", "map", JStr(tp), JObj(<<"x">>), JAbsent) :
             tp \in {<<"web", "fetch">>, <<"lab", "probe">>, <<"lab", "orphan">>,
                     <<"execute_tool">>, <<"files", "nope">>}}

\* The get_tools_in_category requests: path missing, a number, "", "/", a
\* leaf, and a path that names no node.
CategoryRequests ==
    {Request("get_tools_in_category", "nil", JAbsent, JAbsent, JAbsent)}
    \cup {Request("get_tools_in_category", "map", JAbsent, JAbsent, pa) :
             pa \in {JAbsent, JNum, JStr(EmptyStr), JStr(Slash),
                     JStr(<<"files">>), JStr(<<"nowhere">>)}}

Requests == ExecuteRequests \cup CategoryRequests

\* The two tools StartHTTPServer registers with mcpServer.AddTool.
MetaTools == {"get_tools_in_category", "execute_tool"}

\* The caller's context has no deadline.
NoDeadline == 0 - 1

----------------------------------------------------------------------------

VARIABLES
    pc,          \* pc[p]: position of caller p inside GetOrLoadServer
    arg,         \* arg[p]: the serverName argument of caller p's call
    cancelled,   \* cancelled[p]: "live", or when p's ctx was cancelled: while the call
                 \* was "pending", or "after" it returned
    result,      \* result[p]: what the call returned
    mu,          \* holder of r.mu's write lock, NoOne when free
    clients,     \* r.clients: server name -> handle
    life,        \* life[c]: operations performed so far on client object c
    ping,        \* ping[c]: the ping goroutine of client c
    closed,      \* TRUE once ServerRegistry.Close has returned
    sawFail,     \* sawFail[p]: while p waits or initializes, the first failed attempt
                 \* for arg[p] that ended while p was waiting for the write lock
    hier,        \* h.nodes: the hierarchy store, key -> node
    outward,     \* names of the tools registered on the outward mcpServer
    req,         \* req[p]: the tools/call request caller p sent
    reply,       \* reply[p]: what the handler returned for it
    sent,        \* sent[p]: the downstream CallTool issued for p's request
    now,         \* seconds since the request being served arrived
    deadline,    \* deadline[p]: deadline of p's request context, or NoDeadline
    callDeadline,\* callDeadline[p]: when the timer of p's toolCtx fires
    probe,       \* the path given to ResolveToolPath or HandleGetToolsInCategory
    resolved,    \* what ResolveToolPath returned
    disk,        \* SpecLoad: the hierarchy directory, file -> content
    todo,        \* SpecLoad: the files filepath.Walk has still to visit
    load,        \* SpecLoad: how far LoadHierarchy has come
    view,        \* SpecLoad: what HandleGetToolsInCategory returned
    listed,      \* SpecLoad: the tool of the view whose tool_path is resolved
    boot,        \* SpecLazy: how far startHTTPServer has come with the one server
    lazyStore,   \* SpecLazy: c.lazyTools, c.lazyPrompts, c.lazyResources, c.lazyTemplates
    stored,      \* SpecLazy: what storeToolsForLazyLoad and its siblings stored
    added,       \* SpecLazy: the AddTool/AddPrompt/AddResource/AddResourceTemplate
                 \* calls made on the outward mcpServer, in order
    once,        \* SpecLazy: c.activateOnce
    activated,   \* SpecLazy: c.activated
    act          \* SpecLazy: act[p]: caller p's call of activate_<name>

\* The variables of the registry and of the ping task.
registryVars == <<pc, arg, cancelled, result, mu, clients, life, ping, closed, sawFail>>

\* The variables of the meta-tool handlers and of the resolver.
sessionVars ==
    <<hier, outward, req, reply, sent, now, deadline, callDeadline, probe, resolved>>

\* The variables of LoadHierarchy and of the navigation over its store.
loadVars == <<disk, todo, load, view, listed>>

\* The variables of the per-server lazy mode.
lazyVars == <<boot, lazyStore, stored, added, once, activated, act>>

vars == <<registryVars, sessionVars, loadVars, lazyVars>>

NoResult == [kind |-> "none", h |-> NoOne, err |-> ""]
Ok(h) == [kind |-> "ok", h |-> h, err |-> ""]
Err(e) == [kind |-> "err", h |-> NoOne, err |-> e]

NoPing == [state |-> "none", ctx |-> NoOne, fails |-> 0]

\* ctx.Done() is closed / ctx.Err() != nil for the request context of caller p.
CtxDone(p) == cancelled[p] # "live"

Has(c, op) == \E i \in 1..Len(life[c]) : life[c][i] = op

InitStages == {"construct", "start", "initialize"}

\* What a handler returns: an error, a view, or a downstream result.
NoView == [err |-> "", path |-> EmptyStr, children |-> << >>, tools |-> << >>]
NoReply == [kind |-> "none", err |-> "", view |-> NoView, result |-> << >>]
ReplyErr(e) == [kind |-> "err", err |-> e, view |-> NoView, result |-> << >>]
ReplyView(v) == [kind |-> "view", err |-> "", view |-> v, result |-> << >>]
ReplyResult(x) == [kind |-> "result", err |-> "", view |-> NoView, result |-> x]

\* ResolveToolPath has not been called.
NotCalled == [NotFound EXCEPT !.err = "not called"]

NoCall == [client |-> NoOne, name |-> "", arguments |-> EmptyObject, at |-> 0]

\* HandleGetToolsInCategory has not been called.
NotViewed == [NoView EXCEPT !.err = "not called"]

\* The four lists a lazy client keeps until activation.
LazyLists(tools, prompts, resources, templates) ==
    [tools |-> tools, prompts |-> prompts, resources |-> resources,
     templates |-> templates]

NoStore == LazyLists(<< >>, << >>, << >>, << >>)

\* The response of activateTools; NoAck while none was returned.
NoAck == [activated |-> "none", toolCount |-> 0, promptCount |-> 0,
          resourceCount |-> 0, templateCount |-> 0]

IdleAct == [pc |-> "idle", n |-> 0, ack |-> NoAck]

\* The proxy does not run in the per-server lazy mode.
LazyOff ==
    /\ boot = "off"
    /\ lazyStore = NoStore
    /\ stored = NoStore
    /\ added = << >>
    /\ once = "fresh"
    /\ activated = FALSE
    /\ act = [p \in Callers |-> IdleAct]

\* The store is in memory: LoadHierarchy has returned and its directory is
\* not looked at again.
LoadIdle ==
    /\ disk = << >>
    /\ todo = << >>
    /\ load = "ok"
    /\ view = NotViewed
    /\ listed = ""
    /\ LazyOff

\* No request has arrived: the store is loaded, the outward server has its
\* two tools, and nothing has been resolved.
SessionIdle ==
    /\ hier = SessionHierarchy
    /\ outward = MetaTools
    /\ req = [p \in Callers |-> NoRequest]
    /\ reply = [p \in Callers |-> NoReply]
    /\ sent = [p \in Callers |-> NoCall]
    /\ now = 0
    /\ deadline = [p \in Callers |-> NoDeadline]
    /\ callDeadline = [p \in Callers |-> NoDeadline]
    /\ probe = EmptyStr
    /\ resolved = NotCalled
    /\ LoadIdle

\* Callers are interchangeable, so they are numbered by the name they ask for.
NameRank == [n \in ServerNames |->
               IF n = "local" THEN 1 ELSE IF n = "remote" THEN 2 ELSE 3]

\* The registry as built by NewServerRegistry (empty map, free mutex); every
\* caller has entered GetOrLoadServer(ctx, arg[p]) and has not yet run its
\* first statement, r.mu.RLock().
Init ==
    /\ pc = [p \in Callers |-> "rlock"]
    /\ arg \in [Callers -> ServerNames]
    /\ \A p, q \in Callers : p < q => NameRank[arg[p]] <= NameRank[arg[q]]
    /\ cancelled = [p \in Callers |-> "live"]
    /\ result = [p \in Callers |-> NoResult]
    /\ mu = NoOne
    /\ clients = << >>
    /\ life = [p \in Callers |-> << >>]
    /\ ping = [p \in Callers |-> NoPing]
    /\ closed = FALSE
    /\ sawFail = [p \in Callers |-> NoOne]
    /\ SessionIdle

\* The request context of caller p is cancelled (or its deadline passes)
\* while the call is pending, or after it returned.  A cancellation before
\* the call has run its first statement acts like one right after it, and
\* after the return only a ping task can still be listening.
Cancel(p) ==
    /\ pc[p] # "rlock"
    /\ pc[p] = "done" => ping[p].state = "running"
    /\ cancelled[p] = "live"
    /\ cancelled' = [cancelled EXCEPT ![p] =
                        IF pc[p] = "done" THEN "after" ELSE "pending"]
    /\ UNCHANGED <<pc, arg, result, mu, clients, life, ping, closed, sawFail>>

\* Callers of GetOrLoadServer(n) that missed on the fast path and wait for
\* the write lock; an attempt that fails now fails "while they are pending".
Pending(n) == {q \in Callers : pc[q] = "wlock" /\ arg[q] = n}

\* History of the error returns of lines 487-508: the callers waiting for
\* the same name remember the first failed attempt they waited behind; the
\* caller that returns forgets.
NoteFailure(p) ==
    [q \in Callers |->
        IF q = p THEN NoOne
        ELSE IF q \in Pending(arg[p]) /\ sawFail[q] = NoOne THEN p
        ELSE sawFail[q]]

\* "return nil, fmt.Errorf(...)" with the deferred r.mu.Unlock().
ReturnErr(p, e) ==
    /\ pc' = [pc EXCEPT ![p] = "done"]
    /\ result' = [result EXCEPT ![p] = Err(e)]
    /\ mu' = NoOne

\* "return client, nil" with the deferred r.mu.Unlock().
ReturnOk(p, h) ==
    /\ pc' = [pc EXCEPT ![p] = "done"]
    /\ result' = [result EXCEPT ![p] = Ok(h)]
    /\ mu' = NoOne

\* Mutant: the fast path reads the map without taking the read lock.
RLockCheck_nolock(p) ==
    /\ pc[p] = "rlock"
    /\ \A q \in Callers : q < p /\ arg[q] = arg[p] => pc[q] # "rlock"
    /\ IF arg[p] \in DOMAIN clients
         THEN /\ pc' = [pc EXCEPT ![p] = "done"]
              /\ result' = [result EXCEPT ![p] = Ok(clients[arg[p]])]
         ELSE /\ pc' = [pc EXCEPT ![p] = "wlock"]
              /\ UNCHANGED result
    /\ UNCHANGED <<arg, cancelled, mu, clients, life, ping, closed, sawFail>>

\* Lines 463-468: r.mu.RLock(); hit -> return the cached client; RUnlock.
\* RLock cannot be taken while a writer holds r.mu.  Of the callers of one
\* name that have not started, the lowest-numbered is the one that goes first.
RLockCheck(p) ==
    /\ pc[p] = "rlock"
    /\ \A q \in Callers : q < p /\ arg[q] = arg[p] => pc[q] # "rlock"
    /\ mu = NoOne
    /\ IF arg[p] \in DOMAIN clients
         THEN /\ pc' = [pc EXCEPT ![p] = "done"]
              /\ result' = [result EXCEPT ![p] = Ok(clients[arg[p]])]
         ELSE /\ pc' = [pc EXCEPT ![p] = "wlock"]
              /\ UNCHANGED result
    /\ UNCHANGED <<arg, cancelled, mu, clients, life, ping, closed, sawFail>>

\* Lines 474-483 as run after the write lock is taken: check the map again,
\* then look up the server config.  Returns with the deferred Unlock, or
\* goes on to construct the client with the lock held.
Recheck(p) ==
    IF arg[p] \in DOMAIN clients
      THEN /\ ReturnOk(p, clients[arg[p]])
           /\ sawFail' = [sawFail EXCEPT ![p] = NoOne]
      ELSE IF arg[p] \notin DOMAIN ServerConfigs
      THEN /\ ReturnErr(p, "config_not_found")
           /\ sawFail' = [sawFail EXCEPT ![p] = NoOne]
      ELSE /\ pc' = [pc EXCEPT ![p] = "construct"]
           /\ mu' = p
           /\ UNCHANGED <<result, sawFail>>

\* Mutant: a latch per name instead of one mutex; only an initialization of
\* the same name keeps the caller waiting.
Lock_perName(p) ==
    /\ pc[p] = "wlock"
    /\ \A q \in Callers : pc[q] \in InitStages => arg[q] # arg[p]
    /\ Recheck(p)
    /\ UNCHANGED <<arg, cancelled, clients, life, ping, closed>>

\* Mutant: no second check under the write lock.
Lock_nocheck(p) ==
    /\ pc[p] = "wlock"
    /\ mu = NoOne
    /\ IF arg[p] \notin DOMAIN ServerConfigs
         THEN /\ ReturnErr(p, "config_not_found")
              /\ sawFail' = [sawFail EXCEPT ![p] = NoOne]
         ELSE /\ pc' = [pc EXCEPT ![p] = "construct"]
              /\ mu' = p
              /\ UNCHANGED <<result, sawFail>>
    /\ UNCHANGED <<arg, cancelled, clients, life, ping, closed>>

\* Mutant: the error of a failed attempt is handed to the callers that
\* waited behind it instead of letting them try again.
Lock_cachedError(p) ==
    /\ pc[p] = "wlock"
    /\ mu = NoOne
    /\ IF sawFail[p] # NoOne /\ arg[p] \notin DOMAIN clients
         THEN /\ ReturnErr(p, result[sawFail[p]].err)
              /\ sawFail' = [sawFail EXCEPT ![p] = NoOne]
         ELSE Recheck(p)
    /\ UNCHANGED <<arg, cancelled, clients, life, ping, closed>>

\* Lines 470-483: r.mu.Lock(); defer r.mu.Unlock(); second check; config
\* lookup.  Lock waits for the mutex and is not interruptible by ctx.
Lock(p) ==
    /\ pc[p] = "wlock"
    /\ mu = NoOne
    /\ Recheck(p)
    /\ UNCHANGED <<arg, cancelled, clients, life, ping, closed>>

\* Mutant: the new client is put into the map as soon as it is constructed.
NewMCPClient_storeFirst(p) ==
    /\ pc[p] = "construct"
    /\ life' = [life EXCEPT ![p] = Append(@, "construct")]
    /\ clients' = [n \in DOMAIN clients \cup {arg[p]} |->
                     IF n = arg[p] THEN p ELSE clients[n]]
    /\ pc' = [pc EXCEPT ![p] =
                IF NeedManualStart(ServerConfigs[arg[p]])
                  THEN "start" ELSE "initialize"]
    /\ UNCHANGED <<arg, cancelled, result, mu, ping, closed, sawFail>>

\* Lines 485-489: client.NewMCPClient(serverName, cfg); it spawns the
\* subprocess or builds the HTTP client and may fail.
NewMCPClient(p) ==
    /\ pc[p] = "construct"
    /\ \/ /\ life' = [life EXCEPT ![p] = Append(@, "construct")]
          /\ pc' = [pc EXCEPT ![p] =
                      IF NeedManualStart(ServerConfigs[arg[p]])
                        THEN "start" ELSE "initialize"]
          /\ UNCHANGED <<result, mu, sawFail>>
       \/ /\ life' = [life EXCEPT ![p] = Append(@, "construct_err")]
          /\ ReturnErr(p, "create_failed")
          /\ sawFail' = NoteFailure(p)
    /\ UNCHANGED <<arg, cancelled, clients, ping, closed>>

\* Lines 491-497: mcpClient.GetClient().Start(ctx) for SSE / streamable-HTTP.
\* A cancelled ctx aborts the call with ctx.Err().
Start(p) ==
    /\ pc[p] = "start"
    /\ \/ /\ ~CtxDone(p)
          /\ life' = [life EXCEPT ![p] = Append(@, "start")]
          /\ pc' = [pc EXCEPT ![p] = "initialize"]
          /\ UNCHANGED <<result, mu, sawFail>>
       \/ /\ ~CtxDone(p)
          /\ life' = [life EXCEPT ![p] = Append(@, "start_err")]
          /\ ReturnErr(p, "start_failed")
          /\ sawFail' = NoteFailure(p)
       \/ /\ CtxDone(p)
          /\ life' = [life EXCEPT ![p] = Append(@, "start_err")]
          /\ ReturnErr(p, "start_cancelled")
          /\ sawFail' = NoteFailure(p)
    /\ UNCHANGED <<arg, cancelled, clients, ping, closed>>

\* r.clients[serverName] = mcpClient
Insert(name, h) ==
    [n \in DOMAIN clients \cup {name} |-> IF n = name THEN h ELSE clients[n]]

\* Lines 510-520: store the client, "go mcpClient.StartPingTask(ctx)" with
\* the caller's own ctx when the client needs pings, return the client.
Store(p, outcome) ==
    /\ clients' = Insert(arg[p], p)
    /\ IF NeedPing(ServerConfigs[arg[p]])
         THEN /\ ping' = [ping EXCEPT ![p] =
                            [state |-> "running", ctx |-> p, fails |-> 0]]
              /\ life' = [life EXCEPT ![p] = @ \o <<outcome, "insert", "ping_spawn">>]
         ELSE /\ life' = [life EXCEPT ![p] = @ \o <<outcome, "insert">>]
              /\ UNCHANGED ping
    /\ ReturnOk(p, p)
    /\ sawFail' = [sawFail EXCEPT ![p] = NoOne]

\* Mutant: the error returned by Initialize is dropped and the client stored.
Initialize_ignoreErr(p) ==
    /\ pc[p] = "initialize"
    /\ Store(p, IF CtxDone(p) THEN "initialize_err" ELSE "initialize")
    /\ UNCHANGED <<arg, cancelled, closed>>

\* Lines 499-520: mcpClient.GetClient().Initialize(ctx, initRequest); on an
\* error return it, otherwise store the client and return it.  A cancelled
\* ctx aborts the handshake with ctx.Err().
Initialize(p) ==
    /\ pc[p] = "initialize"
    /\ \/ /\ ~CtxDone(p)
          /\ Store(p, "initialize")
       \/ /\ ~CtxDone(p)
          /\ life' = [life EXCEPT ![p] = Append(@, "initialize_err")]
          /\ ReturnErr(p, "init_failed")
          /\ sawFail' = NoteFailure(p)
          /\ UNCHANGED <<clients, ping>>
       \/ /\ CtxDone(p)
          /\ life' = [life EXCEPT ![p] = Append(@, "initialize_err")]
          /\ ReturnErr(p, "init_cancelled")
          /\ sawFail' = NoteFailure(p)
          /\ UNCHANGED <<clients, ping>>
    /\ UNCHANGED <<arg, cancelled, closed>>

\* The client objects currently stored in r.clients.
Registered == {clients[n] : n \in DOMAIN clients}

\* Lines 523-532: ServerRegistry.Close: r.mu.Lock(); client.Close() on every
\* entry of r.clients; deferred Unlock.  The map itself is not written.
Close ==
    /\ ~closed
    /\ mu = NoOne
    /\ life' = [c \in Callers |->
                  IF c \in Registered THEN Append(life[c], "close") ELSE life[c]]
    /\ closed' = TRUE
    /\ UNCHANGED <<pc, arg, cancelled, result, mu, clients, ping, sawFail>>

\* Mutant: a ping task that gives up on a failing client and evicts it.
PingTick_evict(c) ==
    /\ ping[c].state = "running"
    /\ \/ /\ CtxDone(ping[c].ctx)
          /\ ping' = [ping EXCEPT ![c].state = "stopped"]
          /\ UNCHANGED clients
       \/ /\ ~CtxDone(ping[c].ctx)
          /\ ping[c].fails < MaxFail
          /\ ping' = [ping EXCEPT ![c].fails = @ + 1]
          /\ clients' = [n \in {m \in DOMAIN clients : clients[m] # c} |-> clients[n]]
       \/ /\ ~CtxDone(ping[c].ctx)
          /\ ~Has(c, "close")
          /\ ping' = [ping EXCEPT ![c].fails = 0]
          /\ UNCHANGED clients
    /\ UNCHANGED <<pc, arg, cancelled, result, mu, life, closed, sawFail>>

\* client.go lines 309-319: the ticker fires and c.client.Ping(ctx) is sent.
\* A ctx error ends the task; any other error increments failCount; a
\* success resets it.  A closed client cannot answer a ping.
PingTick(c) ==
    /\ ping[c].state = "running"
    /\ \/ /\ CtxDone(ping[c].ctx)
          /\ ping' = [ping EXCEPT ![c].state = "stopped"]
       \/ /\ ~CtxDone(ping[c].ctx)
          /\ ping[c].fails < MaxFail
          /\ ping' = [ping EXCEPT ![c].fails = @ + 1]
       \/ /\ ~CtxDone(ping[c].ctx)
          /\ ~Has(c, "close")
          /\ ping' = [ping EXCEPT ![c].fails = 0]
    /\ UNCHANGED <<pc, arg, cancelled, result, mu, clients, life, closed, sawFail>>

\* client.go lines 306-308: case <-ctx.Done(): the task returns.
PingCtxDone(c) ==
    /\ ping[c].state = "running"
    /\ CtxDone(ping[c].ctx)
    /\ ping' = [ping EXCEPT ![c].state = "stopped"]
    /\ UNCHANGED <<pc, arg, cancelled, result, mu, clients, life, closed, sawFail>>

\* The registry on its own: no request is being served by a handler.
Next ==
    \/ \E p \in Callers : Cancel(p) /\ UNCHANGED sessionVars /\ UNCHANGED <<loadVars, lazyVars>>
    \/ \E p \in Callers : RLockCheck(p) /\ UNCHANGED sessionVars /\ UNCHANGED <<loadVars, lazyVars>>
    \/ \E p \in Callers : Lock(p) /\ UNCHANGED sessionVars /\ UNCHANGED <<loadVars, lazyVars>>
    \/ \E p \in Callers : NewMCPClient(p) /\ UNCHANGED sessionVars /\ UNCHANGED <<loadVars, lazyVars>>
    \/ \E p \in Callers : Start(p) /\ UNCHANGED sessionVars /\ UNCHANGED <<loadVars, lazyVars>>
    \/ \E p \in Callers : Initialize(p) /\ UNCHANGED sessionVars /\ UNCHANGED <<loadVars, lazyVars>>
    \/ Close /\ UNCHANGED sessionVars /\ UNCHANGED <<loadVars, lazyVars>>
    \/ \E c \in Callers : PingTick(c) /\ UNCHANGED sessionVars /\ UNCHANGED <<loadVars, lazyVars>>
    \/ \E c \in Callers : PingCtxDone(c) /\ UNCHANGED sessionVars /\ UNCHANGED <<loadVars, lazyVars>>

Spec == Init /\ [][Next]_vars

----------------------------------------------------------------------------
\* SpecSession: the handlers of the two meta-tools, serving one request
\* after the other.  The caller numbered p is the goroutine of the p-th
\* request; pc[p] runs "idle", "handler", the positions of GetOrLoadServer up
\* to "done", "call" and "returned".

\* A new ServerRegistry and no goroutine inside GetOrLoadServer.
RegistryFresh ==
    /\ pc = [p \in Callers |-> "idle"]
    /\ arg = [p \in Callers |-> ""]
    /\ cancelled = [p \in Callers |-> "live"]
    /\ result = [p \in Callers |-> NoResult]
    /\ mu = NoOne
    /\ clients = << >>
    /\ life = [p \in Callers |-> << >>]
    /\ ping = [p \in Callers |-> NoPing]
    /\ closed = FALSE
    /\ sawFail = [p \in Callers |-> NoOne]

SessionInit == RegistryFresh /\ SessionIdle

\* The handler of p's request returns.
Return(p, r) ==
    /\ pc' = [pc EXCEPT ![p] = "returned"]
    /\ reply' = [reply EXCEPT ![p] = r]

\* The next request of the session arrives, with or without a deadline on
\* its context; the clock counts from its arrival.  Only execute_tool
\* requests are given deadlines: the other handler does not wait.  The
\* goroutines of the earlier requests are gone, with their requests, replies
\* and contexts and with the clients they built and did not store; what
\* they stored in the registry stays.
Arrive(p) ==
    /\ pc[p] = "idle"
    /\ \A q \in Callers : q < p => pc[q] = "returned"
    /\ \E r \in Requests :
          \E d \in IF r.tool = "execute_tool"
                     THEN {NoDeadline, Quantum, 4 * Quantum} ELSE {NoDeadline} :
              /\ req' = [q \in Callers |-> IF q = p THEN r ELSE NoRequest]
              /\ deadline' = [q \in Callers |-> IF q = p THEN d ELSE NoDeadline]
    /\ now' = 0
    /\ pc' = [pc EXCEPT ![p] = "handler"]
    /\ reply' = [q \in Callers |-> NoReply]
    /\ sent' = [q \in Callers |-> NoCall]
    /\ callDeadline' = [q \in Callers |-> NoDeadline]
    /\ result' = [q \in Callers |-> NoResult]
    /\ arg' = [q \in Callers |-> IF q \in Registered THEN arg[q] ELSE ""]
    /\ life' = [q \in Callers |-> IF q \in Registered THEN life[q] ELSE << >>]
    /\ cancelled' = [q \in Callers |->
                        IF ping[q].state = "running" THEN cancelled[q] ELSE "live"]
    /\ UNCHANGED <<mu, clients, ping, closed, sawFail>>
    /\ UNCHANGED <<hier, outward, probe, resolved>>

\* server.go lines 141-166: the get_tools_in_category handler.  path stays
\* "" unless the arguments are an object whose "path" is a string.
GetToolsInCategoryTool(p) ==
    /\ pc[p] = "handler"
    /\ req[p].tool = "get_tools_in_category"
    /\ \E v \in HandleGetToolsInCategory(hier, StringArg(req[p], "path")) :
          Return(p, IF v.err # "" THEN ReplyErr(v.err) ELSE ReplyView(v))
    /\ UNCHANGED <<arg, cancelled, result, mu, clients, life, ping, closed, sawFail>>
    /\ UNCHANGED <<hier, outward, req, sent, now, deadline, callDeadline, probe, resolved>>

\* Mutant: a tool without a server name is handed to the registry.
HandleExecuteTool_noServerCheck(p, toolPath) ==
    LET r == ResolveToolPath(hier, toolPath)
    IN IF r.err # ""
         THEN Return(p, ReplyErr(r.err)) /\ UNCHANGED arg
         ELSE /\ pc' = [pc EXCEPT ![p] = "rlock"]
              /\ arg' = [arg EXCEPT ![p] = r.server]
              /\ UNCHANGED reply

\* HandleExecuteTool, lines 402-417: resolve the path; a resolution error
\* and an empty server name are returned as errors, otherwise the goroutine
\* enters registry.GetOrLoadServer(ctx, serverName).
HandleExecuteTool(p, toolPath) ==
    LET r == ResolveToolPath(hier, toolPath)
    IN IF r.err # ""
         THEN Return(p, ReplyErr(r.err)) /\ UNCHANGED arg
         ELSE IF r.server = ""
         THEN Return(p, ReplyErr("no MCP server configured")) /\ UNCHANGED arg
         ELSE /\ pc' = [pc EXCEPT ![p] = "rlock"]
              /\ arg' = [arg EXCEPT ![p] = r.server]
              /\ UNCHANGED reply

\* server.go lines 189-209: the execute_tool handler.  toolPath stays ""
\* unless the arguments are an object whose "tool_path" is a string; an
\* empty toolPath is refused, anything else goes to HandleExecuteTool.
ExecuteToolTool(p) ==
    /\ pc[p] = "handler"
    /\ req[p].tool = "execute_tool"
    /\ LET toolPath == StringArg(req[p], "tool_path")
       IN IF toolPath = EmptyStr
            THEN Return(p, ReplyErr("tool_path is required")) /\ UNCHANGED arg
            ELSE HandleExecuteTool(p, toolPath)
    /\ UNCHANGED <<cancelled, result, mu, clients, life, ping, closed, sawFail>>
    /\ UNCHANGED <<hier, outward, req, sent, now, deadline, callDeadline, probe, resolved>>

\* Mutant: the downstream tool is always named by the path's last segment.
ActualToolName_lastSegment(toolPath) == toolPath[Len(toolPath)]

\* Lines 420-424: "actualToolName := toolDef.MapsTo", the last segment of
\* the path when that is empty.
ActualToolName(toolPath) ==
    LET toolDef == ResolveToolPath(hier, toolPath).tool
    IN IF toolDef.MapsTo # "" THEN toolDef.MapsTo ELSE toolPath[Len(toolPath)]

\* Lines 430-433: the CallToolRequest composed for p's request, sent now.
CallRequest(p) ==
    [client |-> result[p].h,
     name |-> ActualToolName(StringArg(req[p], "tool_path")),
     arguments |-> ObjectArg(req[p]),
     at |-> now]

\* Mutant: the call is made with the caller's ctx, without the timeout.
StartCall_noTimeout(p) ==
    /\ pc[p] = "done"
    /\ IF result[p].kind = "err"
         THEN /\ Return(p, ReplyErr(result[p].err))
              /\ UNCHANGED <<sent, callDeadline, outward>>
         ELSE /\ sent' = [sent EXCEPT ![p] = CallRequest(p)]
              /\ callDeadline' = [callDeadline EXCEPT ![p] = NoDeadline]
              /\ pc' = [pc EXCEPT ![p] = "call"]
              /\ UNCHANGED <<reply, outward>>
    /\ UNCHANGED <<arg, cancelled, result, mu, clients, life, ping, closed, sawFail>>
    /\ UNCHANGED <<hier, req, now, deadline, probe, resolved>>

\* Mutant: the error of GetOrLoadServer is not checked.
StartCall_ignoreErr(p) ==
    /\ pc[p] = "done"
    /\ sent' = [sent EXCEPT ![p] = CallRequest(p)]
    /\ callDeadline' = [callDeadline EXCEPT ![p] = now + Timeout]
    /\ pc' = [pc EXCEPT ![p] = "call"]
    /\ UNCHANGED <<reply, outward>>
    /\ UNCHANGED <<arg, cancelled, result, mu, clients, life, ping, closed, sawFail>>
    /\ UNCHANGED <<hier, req, now, deadline, probe, resolved>>

\* Mutant: the tool just resolved is also registered on the outward server.
StartCall_expose(p) ==
    /\ pc[p] = "done"
    /\ IF result[p].kind = "err"
         THEN /\ Return(p, ReplyErr(result[p].err))
              /\ UNCHANGED <<sent, callDeadline, outward>>
         ELSE /\ sent' = [sent EXCEPT ![p] = CallRequest(p)]
              /\ callDeadline' = [callDeadline EXCEPT ![p] = now + Timeout]
              /\ outward' = outward \cup {CallRequest(p).name}
              /\ pc' = [pc EXCEPT ![p] = "call"]
              /\ UNCHANGED reply
    /\ UNCHANGED <<arg, cancelled, result, mu, clients, life, ping, closed, sawFail>>
    /\ UNCHANGED <<hier, req, now, deadline, probe, resolved>>

\* Lines 414-436, after GetOrLoadServer returned: its error is returned
\* wrapped; otherwise toolCtx is derived from ctx with the 15 s timeout and
\* the CallToolRequest is sent on the client.
StartCall(p) ==
    /\ pc[p] = "done"
    /\ IF result[p].kind = "err"
         THEN /\ Return(p, ReplyErr(result[p].err))
              /\ UNCHANGED <<sent, callDeadline, outward>>
         ELSE /\ sent' = [sent EXCEPT ![p] = CallRequest(p)]
              /\ callDeadline' = [callDeadline EXCEPT ![p] = now + Timeout]
              /\ pc' = [pc EXCEPT ![p] = "call"]
              /\ UNCHANGED <<reply, outward>>
    /\ UNCHANGED <<arg, cancelled, result, mu, clients, life, ping, closed, sawFail>>
    /\ UNCHANGED <<hier, req, now, deadline, probe, resolved>>

\* toolCtx is done: the caller's ctx is done or the 15 s timer has fired.
CallCtxDone(p) ==
    CtxDone(p) \/ (callDeadline[p] # NoDeadline /\ now >= callDeadline[p])

\* What the downstream server answers to a call.
DownstreamResult(call) == <<call.name>> \o call.arguments

\* CallTool on client c has returned; outcome is "call" or "call_err".
Called(c, outcome) == [life EXCEPT ![c] = Append(@, outcome)]

\* Mutant: a failed call removes the server's entry from the registry.
CallTool_evict(p) ==
    /\ pc[p] = "call"
    /\ \/ /\ ~CallCtxDone(p)
          /\ Return(p, ReplyResult(DownstreamResult(sent[p])))
          /\ life' = Called(sent[p].client, "call")
          /\ UNCHANGED clients
       \/ /\ ~CallCtxDone(p)
          /\ Return(p, ReplyErr("call failed"))
          /\ life' = Called(sent[p].client, "call_err")
          /\ clients' = [n \in DOMAIN clients \ {arg[p]} |-> clients[n]]
       \/ /\ CallCtxDone(p)
          /\ Return(p, ReplyErr("timeout"))
          /\ life' = Called(sent[p].client, "call_err")
          /\ clients' = [n \in DOMAIN clients \ {arg[p]} |-> clients[n]]
    /\ UNCHANGED <<arg, cancelled, result, mu, ping, closed, sawFail>>
    /\ UNCHANGED <<hier, outward, req, sent, now, deadline, callDeadline, probe, resolved>>

\* Lines 436-441: client.GetClient().CallTool(toolCtx, callRequest) returns:
\* the downstream's result, the downstream's error, or, the downstream not
\* having answered, the error of toolCtx: the caller's ctx is done, or the
\* 15 s have elapsed.
CallTool(p) ==
    /\ pc[p] = "call"
    /\ \/ /\ ~CallCtxDone(p)
          /\ Return(p, ReplyResult(DownstreamResult(sent[p])))
          /\ life' = Called(sent[p].client, "call")
       \/ /\ ~CallCtxDone(p)
          /\ Return(p, ReplyErr("call failed"))
          /\ life' = Called(sent[p].client, "call_err")
       \/ /\ CtxDone(p)
          /\ Return(p, ReplyErr("context done"))
          /\ life' = Called(sent[p].client, "call_err")
       \/ /\ callDeadline[p] # NoDeadline /\ now >= callDeadline[p]
          /\ Return(p, ReplyErr("timeout"))
          /\ life' = Called(sent[p].client, "call_err")
    /\ UNCHANGED <<arg, cancelled, result, mu, clients, ping, closed, sawFail>>
    /\ UNCHANGED <<hier, outward, req, sent, now, deadline, callDeadline, probe, resolved>>

\* p's request is being served.
InFlight(p) == pc[p] \notin {"idle", "returned"}

\* p waits for an answer of the downstream server: Start, Initialize, CallTool.
AwaitsDownstream(p) == pc[p] \in {"start", "initialize", "call"}

\* The deadline of p's context has been reached and ctx.Done() not yet closed.
Expired(p) ==
    /\ InFlight(p)
    /\ cancelled[p] = "live"
    /\ deadline[p] # NoDeadline
    /\ now >= deadline[p]

\* The deadline of the request context passes: ctx is done.
DeadlineExpires(p) ==
    /\ Expired(p)
    /\ cancelled' = [cancelled EXCEPT ![p] = "pending"]
    /\ UNCHANGED <<pc, arg, result, mu, clients, life, ping, closed, sawFail>>
    /\ UNCHANGED sessionVars

\* The instants at which a timer of a request in flight fires.
Timers ==
    {deadline[p] : p \in {q \in Callers : InFlight(q) /\ deadline[q] # NoDeadline}}
    \cup {callDeadline[p] :
             p \in {q \in Callers : pc[q] = "call" /\ callDeadline[q] # NoDeadline}}

Min(S) == CHOOSE x \in S : \A y \in S : x <= y

\* Time passes while a request waits for the downstream server, up to the
\* next timer.  A context that is done makes the operation that waits on it
\* return before any more time passes.
Tick ==
    /\ now < MaxTime
    /\ \E p \in Callers : AwaitsDownstream(p)
    /\ \A p \in Callers :
          /\ ~Expired(p)
          /\ AwaitsDownstream(p) => ~CtxDone(p)
          /\ pc[p] = "call" => ~CallCtxDone(p)
    /\ now' = Min({now + Quantum} \cup {t \in Timers : t > now})
    /\ UNCHANGED registryVars
    /\ UNCHANGED <<hier, outward, req, reply, sent, deadline, callDeadline, probe, resolved>>

SessionNext ==
    \/ \E p \in Callers : Arrive(p) /\ UNCHANGED <<loadVars, lazyVars>>
    \/ \E p \in Callers : GetToolsInCategoryTool(p) /\ UNCHANGED <<loadVars, lazyVars>>
    \/ \E p \in Callers : ExecuteToolTool(p) /\ UNCHANGED <<loadVars, lazyVars>>
    \/ \E p \in Callers : RLockCheck(p) /\ UNCHANGED sessionVars /\ UNCHANGED <<loadVars, lazyVars>>
    \/ \E p \in Callers : Lock(p) /\ UNCHANGED sessionVars /\ UNCHANGED <<loadVars, lazyVars>>
    \/ \E p \in Callers : NewMCPClient(p) /\ UNCHANGED sessionVars /\ UNCHANGED <<loadVars, lazyVars>>
    \/ \E p \in Callers : Start(p) /\ UNCHANGED sessionVars /\ UNCHANGED <<loadVars, lazyVars>>
    \/ \E p \in Callers : Initialize(p) /\ UNCHANGED sessionVars /\ UNCHANGED <<loadVars, lazyVars>>
    \/ \E p \in Callers : StartCall(p) /\ UNCHANGED <<loadVars, lazyVars>>
    \/ \E p \in Callers : CallTool(p) /\ UNCHANGED <<loadVars, lazyVars>>
    \/ \E p \in Callers : AwaitsDownstream(p) /\ Cancel(p) /\ UNCHANGED sessionVars /\ UNCHANGED <<loadVars, lazyVars>>
    \/ \E p \in Callers : DeadlineExpires(p) /\ UNCHANGED <<loadVars, lazyVars>>
    \/ Tick /\ UNCHANGED <<loadVars, lazyVars>>

SpecSession == SessionInit /\ [][SessionNext]_vars

----------------------------------------------------------------------------
\* SpecResolve: ResolveToolPath applied once to a tool path over a store.

ResolveInit ==
    /\ RegistryFresh
    /\ hier \in Hierarchies
    /\ probe \in ToolPaths
    /\ resolved = NotCalled
    /\ outward = MetaTools
    /\ req = [p \in Callers |-> NoRequest]
    /\ reply = [p \in Callers |-> NoReply]
    /\ sent = [p \in Callers |-> NoCall]
    /\ now = 0
    /\ deadline = [p \in Callers |-> NoDeadline]
    /\ callDeadline = [p \in Callers |-> NoDeadline]
    /\ LoadIdle

Resolve ==
    /\ resolved = NotCalled
    /\ resolved' = ResolveToolPath(hier, probe)
    /\ UNCHANGED registryVars
    /\ UNCHANGED <<hier, outward, req, reply, sent, now, deadline, callDeadline, probe>>

ResolveNext == Resolve /\ UNCHANGED <<loadVars, lazyVars>>

SpecResolve == ResolveInit /\ [][ResolveNext]_vars

----------------------------------------------------------------------------
\* SpecLoad: LoadHierarchy reads a directory into the store, file by file in
\* the order of filepath.Walk; then one HandleGetToolsInCategory call
\* navigates the store and one ResolveToolPath call resolves a tool_path the
\* view listed.

\* filepath.Base(hierarchyPath): the name of the hierarchy directory itself.
HierDirName == "h"

\* A *.json file below hierarchyPath: filepath.Rel(hierarchyPath,
\* filepath.Dir(path)) as the sequence of its directory names (none for "."),
\* and strings.TrimSuffix(filepath.Base(path), ".json").
File(dir, name) == [dir |-> dir, name |-> name]

\* The *.json files a directory of the model may hold.
Files ==
    ("a/a.json" :> File(<<"a">>, "a")) @@
    ("a/b/b.json" :> File(<<"a", "b">>, "b")) @@
    ("a/b.json" :> File(<<"a">>, "b")) @@
    ("a/root.json" :> File(<<"a">>, "root")) @@
    ("a.json" :> File(<< >>, "a")) @@
    ("h.json" :> File(<< >>, "h")) @@
    ("root.json" :> File(<< >>, "root"))

\* filepath.Join(hierarchyPath, "root.json")
RootFile == "root.json"

\* filepath.Walk visits the entries of every directory in lexical order of
\* their names and descends into a directory when it meets it: "a" comes
\* before "a.json", and inside a/ the directory "b" before "b.json".
WalkOrder ==
    <<"a/a.json", "a/b/b.json", "a/b.json", "a/root.json", "a.json", "h.json",
      "root.json">>

\* What loadNode finds at a path: no file (os.ReadFile fails), a file that
\* json.Unmarshal rejects, or a HierarchyNode.
Absent == [state |-> "absent", node |-> NoFile]
Malformed == [state |-> "malformed", node |-> NoFile]
WellFormed(node) == [state |-> "ok", node |-> node]

\* The node loadNode builds from a well-formed file: the overview and the
\* maps_to of every tool are texts of that file, here the file's own path.
FileNode(path, names) ==
    [Overview |-> path,
     Tools |-> [n \in names |-> ToolDefinition(path, "local")],
     MCPServer |-> ""]

Choices(path, toolSets, broken) ==
    {Absent} \cup broken \cup {WellFormed(FileNode(path, t)) : t \in toolSets}

\* The directories LoadHierarchy is given.
Disks ==
    {("a/a.json" :> aa) @@ ("a/b/b.json" :> abb) @@ ("a/b.json" :> ab) @@
     ("a/root.json" :> ar) @@ ("a.json" :> a) @@ ("h.json" :> h) @@
     ("root.json" :> root) :
        aa \in Choices("a/a.json", {{}, {"b"}, {"t"}}, {Malformed}),
        abb \in Choices("a/b/b.json", {{}, {"b"}, {"t"}}, {}),
        ab \in Choices("a/b.json", {{"b"}}, {Malformed}),
        ar \in Choices("a/root.json", {{"t"}}, {}),
        a \in Choices("a.json", {{"t"}}, {}),
        h \in Choices("h.json", {{"t"}}, {}),
        root \in Choices("root.json", {{}, {"a"}}, {Malformed})}

\* LoadHierarchy, lines 115-143: the key of a file.  With the file's name
\* equal to the name of its directory the key is the directory path in dot
\* form ("" for the hierarchy directory itself), otherwise the directory
\* path in dot form followed by the file's name.
HierarchyKey(f) ==
    LET dirname == IF f.dir = << >> THEN HierDirName ELSE f.dir[Len(f.dir)]
    IN IF f.name = dirname THEN Join(f.dir)
       ELSE IF f.dir = << >> THEN <<f.name>>
       ELSE f.dir \o <<f.name>>

\* The paths given to HandleGetToolsInCategory: the tool paths, and paths
\* with a leading or a trailing dot.
ViewPaths ==
    ToolPaths
    \cup {<<"">> \o q : q \in PathsOfLen(1) \cup PathsOfLen(2)}
    \cup {q \o <<"">> : q \in PathsOfLen(1) \cup PathsOfLen(2)}

LoadInit ==
    /\ RegistryFresh
    /\ hier = << >>
    /\ outward = {}
    /\ req = [p \in Callers |-> NoRequest]
    /\ reply = [p \in Callers |-> NoReply]
    /\ sent = [p \in Callers |-> NoCall]
    /\ now = 0
    /\ deadline = [p \in Callers |-> NoDeadline]
    /\ callDeadline = [p \in Callers |-> NoDeadline]
    /\ probe = EmptyStr
    /\ resolved = NotCalled
    /\ disk \in Disks
    /\ todo = << >>
    /\ load = "start"
    /\ view = NotViewed
    /\ listed = ""
    /\ LazyOff

\* LoadHierarchy, lines 93-100: root.json is loaded first; without it
\* LoadHierarchy returns an error and no store.
LoadRoot ==
    /\ load = "start"
    /\ IF disk[RootFile].state = "ok"
         THEN /\ hier' = (EmptyStr :> disk[RootFile].node) @@
                         (Slash :> disk[RootFile].node)
              /\ todo' = SelectSeq(WalkOrder, LAMBDA x : disk[x].state # "absent")
              /\ load' = "walk"
         ELSE /\ hier' = << >>
              /\ todo' = << >>
              /\ load' = "failed"
    /\ UNCHANGED registryVars
    /\ UNCHANGED <<outward, req, reply, sent, now, deadline, callDeadline, probe,
                   resolved, disk, view, listed>>

\* The store after the walk function has run on the file at path (lines
\* 103-155): a file named root.json is passed over, a file loadNode rejects
\* is logged and passed over, any other file is stored under its key.
Visit(h, path) ==
    IF Files[path].name = "root" \/ disk[path].state # "ok"
      THEN h
      ELSE (HierarchyKey(Files[path]) :> disk[path].node) @@ h

Walk ==
    /\ load = "walk"
    /\ todo # << >>
    /\ hier' = Visit(hier, Head(todo))
    /\ todo' = Tail(todo)
    /\ UNCHANGED registryVars
    /\ UNCHANGED <<outward, req, reply, sent, now, deadline, callDeadline, probe,
                   resolved, disk, load, view, listed>>

\* filepath.Walk has returned nil: LoadHierarchy returns the store.
Loaded ==
    /\ load = "walk"
    /\ todo = << >>
    /\ load' = "ok"
    /\ UNCHANGED registryVars
    /\ UNCHANGED <<hier, outward, req, reply, sent, now, deadline, callDeadline,
                   probe, resolved, disk, todo, view, listed>>

\* One HandleGetToolsInCategory call on the loaded store.
View ==
    /\ load = "ok"
    /\ view = NotViewed
    /\ \E path \in ViewPaths :
          /\ probe' = path
          /\ view' \in HandleGetToolsInCategory(hier, path)
    /\ UNCHANGED registryVars
    /\ UNCHANGED <<hier, outward, req, reply, sent, now, deadline, callDeadline,
                   resolved, disk, todo, load, listed>>

\* ResolveToolPath on the tool_path the view listed for one of its tools.
ResolveListed ==
    /\ view # NotViewed
    /\ view.err = ""
    /\ listed = ""
    /\ \E n \in DOMAIN view.tools :
          /\ listed' = n
          /\ resolved' = ResolveToolPath(hier, view.tools[n])
    /\ UNCHANGED registryVars
    /\ UNCHANGED <<hier, outward, req, reply, sent, now, deadline, callDeadline,
                   probe, disk, todo, load, view>>

LoadNext ==
    \/ LoadRoot /\ UNCHANGED lazyVars
    \/ Walk /\ UNCHANGED lazyVars
    \/ Loaded /\ UNCHANGED lazyVars
    \/ View /\ UNCHANGED lazyVars
    \/ ResolveListed /\ UNCHANGED lazyVars

SpecLoad == LoadInit /\ [][LoadNext]_vars

----------------------------------------------------------------------------
\* SpecRepeat: HandleGetToolsInCategory called by several requests with one
\* path, and ResolveToolPath called with it, over one loaded store.

\* The stores LoadHierarchy builds from root.json, a/a.json without tools
\* and the leaf files a/a/a.json and a/b.json: the category "a" with the
\* leaf children "a.a" and "a.b".
SiblingStores ==
    {[k \in {EmptyStr, Slash, <<"a">>, <<"a", "a">>, <<"a", "b">>} |->
         IF k \in {EmptyStr, Slash} THEN FileNode("root.json", rt)
         ELSE IF k = <<"a">> THEN FileNode("a/a.json", {})
         ELSE IF k = <<"a", "a">> THEN FileNode("a/a/a.json", ta)
         ELSE FileNode("a/b.json", tb)] :
       rt \in {{}, {"a"}}, ta \in SUBSET {"t", "u"}, tb \in SUBSET {"t", "u"}}

RepeatPaths == {EmptyStr, Slash, <<"a">>, <<"a", "a">>, <<"a", "b">>, <<"b">>}

RepeatInit ==
    /\ RegistryFresh
    /\ hier \in SiblingStores
    /\ probe \in RepeatPaths
    /\ resolved = NotCalled
    /\ outward = MetaTools
    /\ req = [p \in Callers |-> NoRequest]
    /\ reply = [p \in Callers |-> NoReply]
    /\ sent = [p \in Callers |-> NoCall]
    /\ now = 0
    /\ deadline = [p \in Callers |-> NoDeadline]
    /\ callDeadline = [p \in Callers |-> NoDeadline]
    /\ LoadIdle

\* The get_tools_in_category request of caller p for the path is answered.
ViewCall(p) ==
    /\ reply[p] = NoReply
    /\ \E v \in HandleGetToolsInCategory(hier, probe) :
          reply' = [reply EXCEPT ![p] = IF v.err # "" THEN ReplyErr(v.err)
                                        ELSE ReplyView(v)]
    /\ UNCHANGED registryVars
    /\ UNCHANGED <<hier, outward, req, sent, now, deadline, callDeadline, probe,
                   resolved>>

RepeatNext ==
    \/ \E p \in Callers : ViewCall(p) /\ UNCHANGED <<loadVars, lazyVars>>
    \/ Resolve /\ UNCHANGED <<loadVars, lazyVars>>

SpecRepeat == RepeatInit /\ [][RepeatNext]_vars

----------------------------------------------------------------------------
\* SpecPing: the loop of one ping task, ping by ping, with the outcome of
\* every ping recorded on the client.

PingOutcomes == {"ping_ok", "ping_err", "ping_ctx"}

IsPing(op) == op \in PingOutcomes

\* The outcomes of the pings sent on client c so far, in order.
Pings(c) == SelectSeq(life[c], IsPing)

\* Mutant: a successful ping leaves the counter as it is.
AfterPing_noReset(task, outcome) ==
    IF outcome = "ping_ctx" THEN [task EXCEPT !.state = "stopped"]
    ELSE IF outcome = "ping_err" THEN [task EXCEPT !.fails = @ + 1]
    ELSE task

\* client.go lines 310-319: what the loop does with the result of
\* c.client.Ping(ctx): return on context.Canceled or DeadlineExceeded,
\* failCount++ on any other error, failCount = 0 on success.
AfterPing(task, outcome) ==
    IF outcome = "ping_ctx" THEN [task EXCEPT !.state = "stopped"]
    ELSE IF outcome = "ping_err" THEN [task EXCEPT !.fails = @ + 1]
    ELSE IF task.fails > 0 THEN [task EXCEPT !.fails = 0]
    ELSE task

\* GetOrLoadServer(ctx, "remote") has returned to caller 1: the client of
\* the SSE server is in the map and its ping task runs on the caller's ctx.
PingInit ==
    /\ pc = [p \in Callers |-> IF p = 1 THEN "done" ELSE "idle"]
    /\ arg = [p \in Callers |-> IF p = 1 THEN "remote" ELSE ""]
    /\ cancelled = [p \in Callers |-> "live"]
    /\ result = [p \in Callers |-> IF p = 1 THEN Ok(1) ELSE NoResult]
    /\ mu = NoOne
    /\ clients = ("remote" :> 1)
    /\ life = [p \in Callers |->
                 IF p = 1 THEN <<"construct", "start", "initialize", "insert",
                                 "ping_spawn">>
                 ELSE << >>]
    /\ ping = [p \in Callers |->
                 IF p = 1 THEN [state |-> "running", ctx |-> 1, fails |-> 0]
                 ELSE NoPing]
    /\ closed = FALSE
    /\ sawFail = [p \in Callers |-> NoOne]
    /\ SessionIdle

\* The ticker fires and c.client.Ping(ctx) returns: with the ctx error when
\* ctx is done, otherwise with success or with another error.  A closed
\* client cannot answer a ping.
Ping(c, outcome) ==
    /\ ping[c].state = "running"
    /\ Len(Pings(c)) < MaxPings
    /\ outcome = "ping_ctx" <=> CtxDone(ping[c].ctx)
    /\ outcome = "ping_ok" => ~Has(c, "close")
    /\ life' = [life EXCEPT ![c] = Append(@, outcome)]
    /\ ping' = [ping EXCEPT ![c] = AfterPing(@, outcome)]
    /\ UNCHANGED <<pc, arg, cancelled, result, mu, clients, closed, sawFail>>

PingNext ==
    \/ \E c \in Callers, o \in PingOutcomes :
          Ping(c, o) /\ UNCHANGED sessionVars /\ UNCHANGED <<loadVars, lazyVars>>
    \/ \E c \in Callers : PingCtxDone(c) /\ UNCHANGED sessionVars /\ UNCHANGED <<loadVars, lazyVars>>
    \/ \E p \in Callers : Cancel(p) /\ UNCHANGED sessionVars /\ UNCHANGED <<loadVars, lazyVars>>
    \/ Close /\ UNCHANGED sessionVars /\ UNCHANGED <<loadVars, lazyVars>>

SpecPing == PingInit /\ [][PingNext]_vars

----------------------------------------------------------------------------
\* SpecLazy: startHTTPServer in the per-server lazy mode (options.lazyLoad)
\* for one configured server, and callers of its meta-tool activate_<name>.

LazyServer == "local"

\* fmt.Sprintf("activate_%s", c.name)
MetaToolName(name) == "activate_" \o name

Item(kind, name) == [kind |-> kind, name |-> name]

\* What the downstream server can answer to ListTools, ListPrompts,
\* ListResources and ListResourceTemplates.
Stores ==
    {LazyLists(t, p, r, u) :
        t \in {<< >>, <<"read_file">>, <<"read_file", "write_file">>},
        p \in {<< >>, <<"summarize">>},
        r \in {<< >>, <<"readme">>},
        u \in {<< >>, <<"file">>}}

Items(kind, names) == [i \in 1..Len(names) |-> Item(kind, names[i])]

\* The order in which the function given to activateOnce.Do walks the lists.
Flat(s) ==
    Items("tool", s.tools) \o Items("prompt", s.prompts)
        \o Items("resource", s.resources) \o Items("template", s.templates)

\* tools/list on the outward server.
ListTools(calls) ==
    {calls[i].name : i \in {j \in 1..Len(calls) : calls[j].kind = "tool"}}

\* Mutant: the tools are registered at startup, as without options.lazyLoad.
StartupTools_normalMode(s) ==
    <<Item("tool", MetaToolName(LazyServer))>> \o Items("tool", s.tools)

\* What addToMCPServer adds to the outward server in the lazy mode: the
\* meta-tool alone.
StartupTools(s) == <<Item("tool", MetaToolName(LazyServer))>>

\* Mutant: activation is guarded by the flag c.activated, not by sync.Once.
OnceFresh_byFlag == ~activated

\* sync.Once: no call of Do has started.
OnceFresh == once = "fresh"

LazyInit ==
    /\ RegistryFresh
    /\ hier = << >>
    /\ outward = {}
    /\ req = [p \in Callers |-> NoRequest]
    /\ reply = [p \in Callers |-> NoReply]
    /\ sent = [p \in Callers |-> NoCall]
    /\ now = 0
    /\ deadline = [p \in Callers |-> NoDeadline]
    /\ callDeadline = [p \in Callers |-> NoDeadline]
    /\ probe = EmptyStr
    /\ resolved = NotCalled
    /\ disk = << >>
    /\ todo = << >>
    /\ load = "ok"
    /\ view = NotViewed
    /\ listed = ""
    /\ boot = "connecting"
    /\ lazyStore = NoStore
    /\ stored = NoStore
    /\ added = << >>
    /\ once = "fresh"
    /\ activated = FALSE
    /\ act = [p \in Callers |-> IdleAct]

LazyFrame ==
    UNCHANGED <<registryVars, hier, req, reply, sent, now, deadline, callDeadline,
                probe, resolved, loadVars>>

\* addToMCPServer with options.lazyLoad: Start, Initialize or
\* storeToolsForLazyLoad fails and nothing is registered; or the four lists
\* are stored (a failure to list prompts, resources or templates leaves that
\* list as it is) and registerMetaTool adds activate_<name>.
AddToMCPServer ==
    /\ boot = "connecting"
    /\ \/ /\ boot' = "failed"
          /\ UNCHANGED <<lazyStore, stored, added, outward>>
       \/ \E s \in Stores :
             /\ lazyStore' = s
             /\ stored' = s
             /\ added' = added \o StartupTools(s)
             /\ outward' = ListTools(added')
             /\ boot' = "added"
    /\ UNCHANGED <<once, activated, act>>
    /\ LazyFrame

\* httpMux.Handle(mcpRoute, ...): from here on the outward server of this
\* client answers requests.
Handle ==
    /\ boot = "added"
    /\ boot' = "serving"
    /\ UNCHANGED <<lazyStore, stored, added, once, activated, act, outward>>
    /\ LazyFrame

\* A tools/call of activate_<name> arrives and activateTools reaches
\* c.activateOnce.Do.
ActivateCall(p) ==
    /\ boot = "serving"
    /\ act[p].pc = "idle"
    /\ act' = [act EXCEPT ![p] = [pc |-> "once", n |-> 0, ack |-> NoAck]]
    /\ UNCHANGED <<boot, lazyStore, stored, added, once, activated, outward>>
    /\ LazyFrame

\* activateOnce.Do: the first caller runs the function; a caller that
\* arrives while it runs blocks until it has returned; later callers pass.
OnceDo(p) ==
    /\ act[p].pc = "once"
    /\ \/ /\ OnceFresh
          /\ once' = "running"
          /\ act' = [act EXCEPT ![p].pc = "do"]
       \/ /\ ~OnceFresh
          /\ once = "done"
          /\ act' = [act EXCEPT ![p].pc = "after"]
          /\ UNCHANGED once
    /\ UNCHANGED <<boot, lazyStore, stored, added, activated, outward>>
    /\ LazyFrame

\* One iteration of the four loops of the function given to Do.
Register(p) ==
    /\ act[p].pc = "do"
    /\ act[p].n < Len(Flat(lazyStore))
    /\ added' = Append(added, Flat(lazyStore)[act[p].n + 1])
    /\ outward' = ListTools(added')
    /\ act' = [act EXCEPT ![p].n = @ + 1]
    /\ UNCHANGED <<boot, lazyStore, stored, once, activated>>
    /\ LazyFrame

\* The end of the function given to Do: the lists are cleared, c.activated is
\* set, and Do returns to its caller with the four counts.
DoReturn(p) ==
    /\ act[p].pc = "do"
    /\ act[p].n >= Len(Flat(lazyStore))
    /\ lazyStore' = NoStore
    /\ activated' = TRUE
    /\ once' = "done"
    /\ act' = [act EXCEPT ![p].pc = "after",
                          ![p].ack = [NoAck EXCEPT
                              !.toolCount = Len(lazyStore.tools),
                              !.promptCount = Len(lazyStore.prompts),
                              !.resourceCount = Len(lazyStore.resources),
                              !.templateCount = Len(lazyStore.templates)]]
    /\ UNCHANGED <<boot, stored, added, outward>>
    /\ LazyFrame

\* activateTools returns its response, "activated": true with the counts of
\* this call.
ActivateReturn(p) ==
    /\ act[p].pc = "after"
    /\ act' = [act EXCEPT ![p].pc = "returned", ![p].ack.activated = "true"]
    /\ UNCHANGED <<boot, lazyStore, stored, added, once, activated, outward>>
    /\ LazyFrame

\* The caller is free to call activate_<name> again.
ActivateAgain(p) ==
    /\ act[p].pc = "returned"
    /\ act' = [act EXCEPT ![p].pc = "idle"]
    /\ UNCHANGED <<boot, lazyStore, stored, added, once, activated, outward>>
    /\ LazyFrame

LazyNext ==
    \/ AddToMCPServer
    \/ Handle
    \/ \E p \in Callers : ActivateCall(p)
    \/ \E p \in Callers : OnceDo(p)
    \/ \E p \in Callers : Register(p)
    \/ \E p \in Callers : DoReturn(p)
    \/ \E p \in Callers : ActivateReturn(p)
    \/ \E p \in Callers : ActivateAgain(p)

SpecLazy == LazyInit /\ [][LazyNext]_vars

----------------------------------------------------------------------------
\* Properties of the registry and of the ping task.

\* Client objects constructed for name n, and those that completed Initialize.
Constructed(n) == {c \in Callers : arg[c] = n /\ Has(c, "construct")}
Initialized(n) == {c \in Callers : arg[c] = n /\ Has(c, "initialize")}

\* Attempts for name n that ended in an error.
FailedAttempts(n) ==
    {c \in Callers : arg[c] = n /\
        (Has(c, "construct_err") \/ Has(c, "start_err") \/ Has(c, "initialize_err"))}

ReturnedOk(p) == pc[p] = "done" /\ result[p].kind = "ok"
ReturnedErr(p) == pc[p] = "done" /\ result[p].kind = "err"

\* The life of a client that is Ready: initialized and not closed.
ReadyLife(l) ==
    /\ \E i \in 1..Len(l) : l[i] = "initialize"
    /\ \A i \in 1..Len(l) : l[i] # "close"

\* C1: for any number of GetOrLoadServer calls with one name, at most one
\* client of that name is ever initialized; when no attempt for the name
\* failed, only one client is constructed; and every call that returns a
\* handle returns the one stored in the map, which was initialized.
C1_InitOnce ==
    \A n \in ServerNames :
        /\ Cardinality(Initialized(n)) <= 1
        /\ FailedAttempts(n) = {} => Cardinality(Constructed(n)) <= 1
        /\ \A p \in Callers : ReturnedOk(p) /\ arg[p] = n =>
              /\ n \in DOMAIN clients
              /\ result[p].h = clients[n]
              /\ Initialized(n) = {result[p].h}

\* C1 witness: all callers asked for the same name, all have returned the
\* same handle, and exactly one client was constructed.
C1_Witness ==
    \E n \in ServerNames :
        /\ \A p \in Callers : arg[p] = n /\ ReturnedOk(p)
        /\ \A p, q \in Callers : result[p].h = result[q].h
        /\ Cardinality(Constructed(n)) = 1

\* C2 (as claimed): a caller for an absent server A never waits for a lock
\* that is held by the initialization of a different server B.
C2_NeverBlockedByOther ==
    \A p, q \in Callers :
        ~ /\ pc[p] \in {"rlock", "wlock"}
          /\ arg[p] \notin DOMAIN clients
          /\ pc[q] \in InitStages
          /\ mu = q
          /\ arg[q] # arg[p]

\* C2 (amended): initializations are serialized by the one registry mutex:
\* whoever is constructing, starting or initializing a client holds r.mu, so
\* at most one initialization, of any name, is in progress at a time.
C2_OneInitAtATime ==
    /\ \A p \in Callers : pc[p] \in InitStages => mu = p
    /\ Cardinality({p \in Callers : pc[p] \in InitStages}) <= 1

\* C2 witness: p missed on A, which is configured and absent, and waits for
\* the write lock while q initializes a different server.
C2_Witness ==
    \E p, q \in Callers :
        /\ pc[p] = "wlock"
        /\ arg[p] \in DOMAIN ServerConfigs
        /\ arg[p] \notin DOMAIN clients
        /\ pc[q] = "initialize"
        /\ arg[q] # arg[p]

\* C3 (as claimed): a caller for a name that is in the map never waits while
\* the initialization of a different name is in progress.
C3_ReadyNeverWaits ==
    \A p, q \in Callers :
        ~ /\ pc[p] = "rlock"
          /\ arg[p] \in DOMAIN clients
          /\ mu = q
          /\ arg[q] # arg[p]

\* C3 (amended): the fast path returns the cached handle and constructs
\* nothing, but only while no initialization holds the mutex: RLock waits
\* for the write lock of an initialization of any name.
C3_FastPathUnderRLock ==
    [][\A p \in Callers :
          (pc[p] = "rlock" /\ pc'[p] = "done") =>
              /\ mu = NoOne
              /\ arg[p] \in DOMAIN clients
              /\ result'[p] = Ok(clients[arg[p]])
              /\ clients' = clients /\ life' = life /\ ping' = ping]_vars

\* C3 witness: p got the cached handle of a client another caller built, and
\* did so without constructing anything, while a third caller is
\* initializing a different server.
C3_Witness ==
    \E p, q \in Callers :
        /\ ReturnedOk(p) /\ result[p].h # p /\ life[p] = << >>
        /\ pc[q] \in InitStages
        /\ arg[q] # arg[p]

\* C4 (as claimed): a caller that was waiting for the write lock when an
\* attempt for its name failed makes no attempt of its own: when its wait
\* ends it returns the error of that attempt.
C4_SharedError ==
    [][\A q \in Callers :
          (sawFail[q] # NoOne /\ pc[q] = "wlock" /\ pc'[q] # "wlock") =>
              /\ pc'[q] = "done"
              /\ result'[q] = result[sawFail[q]]]_vars

\* C4 (amended): the error of a failed attempt goes only to the caller that
\* made it.  A caller that was waiting behind it, once it has the lock,
\* returns the handle a later attempt stored or, the name still being
\* absent, starts an attempt of its own; and every error other than a
\* missing config is returned by the caller whose own attempt produced it.
C4_EachCallerRetries ==
    [][/\ \A q \in Callers :
            (sawFail[q] # NoOne /\ pc[q] = "wlock" /\ pc'[q] # "wlock") =>
                \/ /\ arg[q] \in DOMAIN clients
                   /\ clients[arg[q]] # sawFail[q]
                   /\ pc'[q] = "done"
                   /\ result'[q] = Ok(clients[arg[q]])
                \/ /\ arg[q] \notin DOMAIN clients
                   /\ pc'[q] = "construct"
                   /\ life[q] = << >>
                   /\ mu' = q
       /\ \A q \in Callers :
            (pc[q] # "done" /\ pc'[q] = "done" /\ result'[q].kind = "err"
                /\ result'[q].err # "config_not_found") =>
                life'[q] # << >>]_vars

\* C4 witness: two callers waited behind the same failed attempt; one of
\* them is now initializing a client of its own and the other still waits.
C4_Witness ==
    \E q, r \in Callers :
        /\ sawFail[q] # NoOne /\ sawFail[r] = sawFail[q]
        /\ pc[q] = "initialize"
        /\ pc[r] = "wlock"

\* C5: the step in which GetOrLoadServer returns an error, at whatever
\* stage, leaves the name out of the map, with no ping task for any client
\* of that name and the mutex free; and whoever then starts constructing
\* starts with a client on which nothing has been done yet.
C5_FailureNotCached ==
    [][/\ \A p \in Callers :
            (pc[p] # "done" /\ pc'[p] = "done" /\ result'[p].kind = "err") =>
                /\ arg[p] \notin DOMAIN clients'
                /\ \A c \in Callers : arg[c] = arg[p] => ping'[c] = NoPing
                /\ mu' = NoOne
       /\ \A q \in Callers :
            (pc[q] # "construct" /\ pc'[q] = "construct") =>
                life[q] = << >> /\ arg[q] \notin DOMAIN clients]_vars

\* C5 witness: one call failed at the config lookup, another at a later
\* stage, and a caller that came after that failed attempt for the same name
\* ran the whole initialization and stored its client.
C5_Witness ==
    /\ \E p \in Callers : ReturnedErr(p) /\ result[p].err = "config_not_found"
    /\ \E p, q \in Callers :
         /\ arg[p] = arg[q]
         /\ ReturnedErr(p) /\ result[p].err \in {"create_failed", "start_failed", "init_failed"}
         /\ ReturnedOk(q) /\ result[q].h = q
         /\ life[q] = <<"construct", "start", "initialize", "insert", "ping_spawn">>

C7_ReturnedHandleReady ==
    [][\A p \in Callers :
          (pc[p] # "done" /\ pc'[p] = "done" /\ result'[p].kind = "ok") =>
              ReadyLife(life'[result'[p].h])]_vars

\* C8 (as claimed): when Close returns, every client that was in the map has
\* been closed and the map is empty.
C8_CloseEmptiesMap ==
    [][(~closed /\ closed') =>
          /\ \A c \in Registered : \E i \in 1..Len(life'[c]) : life'[c][i] = "close"
          /\ DOMAIN clients' = {}]_vars

\* C9 (as claimed): the ping task of a registered client is not bound to the
\* request that loaded it: it is never stopped before the registry is closed.
C9_PingOutlivesRequest ==
    \A c \in Callers : ping[c].state = "stopped" => closed

\* C10: no step of a ping task, whatever the ping outcome, changes the map;
\* and a client that has a ping task, failing or stopped, stays registered.
C10_PingKeepsMap ==
    [][/\ \A c \in Callers :
            (ping[c].state = "running" /\ ping'[c] # ping[c]) => clients' = clients
       /\ \A c \in Callers :
            ping'[c].state # "none" =>
                arg[c] \in DOMAIN clients' /\ clients'[arg[c]] = c]_vars

\* C10 witness: a client whose pings failed as often as the model counts is
\* still the registered client of its name.
C10_Witness ==
    \E c \in Callers :
        /\ ping[c].state = "running"
        /\ ping[c].fails = MaxFail
        /\ arg[c] \in DOMAIN clients /\ clients[arg[c]] = c

----------------------------------------------------------------------------
\* Properties of the meta-tool handlers (SpecSession).

Max(a, b) == IF a >= b THEN a ELSE b

\* Caller p's return from the downstream CallTool in this step.
CallReturns(p) == pc[p] = "call" /\ pc'[p] = "returned"

C12_FailedCallKeepsEntry ==
    /\ [][\A p \in Callers :
             (CallReturns(p) /\ reply'[p].kind = "err") =>
                 /\ reply'[p].err \in {"call failed", "timeout", "context done"}
                 /\ clients' = clients /\ ping' = ping
                 /\ life' = Called(sent[p].client, "call_err")
                 /\ arg[p] \in DOMAIN clients
                 /\ clients[arg[p]] = sent[p].client]_vars
    /\ [][\A q \in Callers :
             (/\ pc[q] = "rlock" /\ pc'[q] # "rlock"
              /\ arg[q] \in DOMAIN clients
              /\ Has(clients[arg[q]], "call_err")) =>
                 /\ pc'[q] = "done"
                 /\ result'[q] = Ok(clients[arg[q]])
                 /\ clients' = clients /\ life' = life /\ ping' = ping]_vars

\* C12 witness: a request got its result from a client that an earlier
\* request had built and on which an earlier CallTool had failed; the
\* request itself constructed nothing.
C12_Witness ==
    \E q \in Callers :
        /\ pc[q] = "returned"
        /\ reply[q].kind = "result"
        /\ sent[q].client # q
        /\ life[q] = << >>
        /\ Has(sent[q].client, "call_err")
        /\ clients[arg[q]] = sent[q].client

\* Caller p's request is an execute_tool whose tool_path is a non-empty
\* string that resolves to a tool with the server name given.
ExecutesOn(p, servers) ==
    /\ req[p].tool = "execute_tool"
    /\ req[p].args = "map"
    /\ req[p].tool_path.t = "string"
    /\ req[p].tool_path.v # EmptyStr
    /\ ResolveToolPath(hier, req[p].tool_path.v).err = ""
    /\ ResolveToolPath(hier, req[p].tool_path.v).server \in servers

\* Caller p has not entered GetOrLoadServer, has built no client and has
\* made no downstream call.
TouchedNothing(p) ==
    /\ pc[p] \in {"handler", "returned"}
    /\ arg[p] = ""
    /\ result[p] = NoResult
    /\ life[p] = << >>
    /\ sent[p] = NoCall

\* C15: execute_tool for a tool whose server name has no entry in the config
\* table constructs and starts no client and makes no downstream call, no
\* step of it changes the registry, and it returns the config-missing error.
C15_ConfigMissing ==
    /\ [](\A p \in Callers : ExecutesOn(p, {"ghost"}) =>
             /\ pc[p] \in {"handler", "rlock", "wlock", "done", "returned"}
             /\ life[p] = << >>
             /\ sent[p] = NoCall
             /\ pc[p] = "done" => result[p] = Err("config_not_found")
             /\ pc[p] = "returned" => reply[p] = ReplyErr("config_not_found"))
    /\ [][\A p \in Callers : (ExecutesOn(p, {"ghost"}) /\ InFlight(p)) =>
             /\ clients' = clients /\ life' = life /\ ping' = ping
             /\ mu' = NoOne /\ outward' = outward]_vars

\* C15 witness: with a server loaded in the registry, a request for a tool of
\* the unconfigured server has returned the config-missing error.
C15_Witness ==
    \E p \in Callers :
        /\ ExecutesOn(p, {"ghost"})
        /\ pc[p] = "returned"
        /\ reply[p] = ReplyErr("config_not_found")
        /\ DOMAIN clients # {}

\* C16: execute_tool on a path that resolves to a tool with an empty server
\* name (a meta-tool, or a tool without server) is an error of the call, the
\* store holding such tools having been loaded; the call never enters
\* GetOrLoadServer, makes no downstream call and changes nothing.
C16_NoServerFailsAtExecution ==
    /\ [](\A p \in Callers : ExecutesOn(p, {""}) =>
             /\ TouchedNothing(p)
             /\ pc[p] = "returned" => reply[p] = ReplyErr("no MCP server configured"))
    /\ [][\A p \in Callers : (ExecutesOn(p, {""}) /\ InFlight(p)) =>
             UNCHANGED <<mu, clients, life, ping, outward, hier>>]_vars

\* C16 witness: with a server loaded, a request for the tool that has no
\* server anywhere has returned the error.
C16_Witness ==
    \E p \in Callers :
        /\ req[p].tool_path = JStr(<<"lab", "orphan">>)
        /\ ExecutesOn(p, {""})
        /\ pc[p] = "returned"
        /\ reply[p] = ReplyErr("no MCP server configured")
        /\ DOMAIN clients # {}

\* Caller p's request is an execute_tool without a usable tool_path: missing,
\* not a string, or the empty string.
NoToolPath(p) ==
    /\ req[p].tool = "execute_tool"
    /\ \/ req[p].args # "map"
       \/ req[p].tool_path.t # "string"
       \/ req[p].tool_path.v = EmptyStr

\* C18: execute_tool without a usable tool_path is refused with "tool_path is
\* required" before anything is resolved, loaded or called.  With a usable
\* tool_path, arguments that are missing or not an object are no error of
\* their own: the call goes on and the downstream is called with {}.
C18_ToolPathRequired ==
    \A p \in Callers :
        /\ NoToolPath(p) =>
              /\ TouchedNothing(p)
              /\ pc[p] = "returned" => reply[p] = ReplyErr("tool_path is required")
        /\ (req[p].tool = "execute_tool" /\ ~NoToolPath(p)
               /\ req[p].arguments.t # "object") =>
              /\ reply[p].err # "tool_path is required"
              /\ pc[p] \in {"call", "returned"} /\ sent[p] # NoCall =>
                    sent[p].arguments = EmptyObject
              /\ reply[p].kind = "result" =>
                    reply[p].result = <<sent[p].name>>

\* C18 witness: with a server loaded, a request whose tool_path is a number
\* has been refused.
C18_Witness ==
    \E p \in Callers :
        /\ req[p].tool = "execute_tool"
        /\ req[p].tool_path = JNum
        /\ pc[p] = "returned"
        /\ reply[p] = ReplyErr("tool_path is required")
        /\ DOMAIN clients # {}

\* C19 (as claimed): get_tools_in_category without its path argument
\* returns an error, not a view.
C19_MissingPathRejected ==
    \A p \in Callers :
        (/\ req[p].tool = "get_tools_in_category"
         /\ req[p].args # "map" \/ req[p].path.t = "absent"
         /\ pc[p] = "returned") =>
            reply[p].kind = "err"

\* C20: the outward server lists the two meta-tools and nothing else, in
\* every state of a session: after navigation, after execute_tool calls and
\* after lazy server loads.
C20_OnlyMetaTools ==
    outward = {"get_tools_in_category", "execute_tool"}

\* C20 witness: both configured servers have been loaded lazily, a
\* downstream tool has just been executed, and the list is the two tools.
C20_Witness ==
    /\ DOMAIN clients = {"local", "remote"}
    /\ \E p \in Callers : pc[p] = "returned" /\ reply[p].kind = "result"
    /\ outward = MetaTools

\* How far a request has come: a handler never goes back to an earlier step.
StageRank(stage) ==
    CASE stage = "idle" -> 0
      [] stage = "handler" -> 1
      [] stage = "rlock" -> 2
      [] stage = "wlock" -> 3
      [] stage = "construct" -> 4
      [] stage = "start" -> 5
      [] stage = "initialize" -> 6
      [] stage = "done" -> 7
      [] stage = "call" -> 8
      [] OTHER -> 9

\* The number of CallTool calls recorded in the history l of a client.
CallsIn(l) == Cardinality({i \in 1..Len(l) : l[i] \in {"call", "call_err"}})

\* The execute_tool request of caller p has returned a downstream result.
Succeeded(p) == pc[p] = "returned" /\ reply[p].kind = "result"

\* C31: a successful execute_tool has made its downstream CallTool on the
\* client registered for the resolved server, named by the tool's maps_to,
\* with the caller's arguments, and returns what the downstream answered;
\* every CallTool is the one call of one request, and no request goes back
\* to an earlier step: neither the call nor the initialization is retried.
C31_OneCallAsResolved ==
    /\ [](\A p \in Callers : Succeeded(p) =>
            LET r == ResolveToolPath(hier, req[p].tool_path.v)
            IN /\ req[p].tool = "execute_tool"
               /\ r.err = ""
               /\ r.server \in DOMAIN clients
               /\ sent[p].client = clients[r.server]
               /\ hier[r.host].Tools[r.name].MapsTo # ""
               /\ sent[p].name = hier[r.host].Tools[r.name].MapsTo
               /\ req[p].arguments.t = "object" =>
                     sent[p].arguments = req[p].arguments.v
               /\ reply[p].result = <<sent[p].name>> \o sent[p].arguments
               /\ CallsIn(life[sent[p].client]) >= 1)
    /\ [][/\ \A p \in Callers : StageRank(pc'[p]) >= StageRank(pc[p])
          /\ \A c \in Callers :
                CallsIn(life'[c]) > CallsIn(life[c]) =>
                    /\ CallsIn(life'[c]) = CallsIn(life[c]) + 1
                    /\ \E p \in Callers :
                          /\ pc[p] = "call" /\ pc'[p] = "returned"
                          /\ sent[p].client = c
          /\ \A p \in Callers :
                (pc[p] = "call" /\ pc'[p] = "returned") =>
                    \A c \in Callers :
                        CallsIn(life'[c]) =
                            CallsIn(life[c]) + (IF c = sent[p].client THEN 1 ELSE 0)]_vars

\* C31 witness: the tool files.read, whose maps_to is read_file, has been
\* executed with the caller's arguments on a cached client that had served
\* a call before.
C31_Witness ==
    \E p \in Callers :
        /\ Succeeded(p)
        /\ req[p].tool_path = JStr(<<"files", "read">>)
        /\ req[p].arguments = JObj(<<"x">>)
        /\ sent[p].name = "read_file"
        /\ sent[p].client # p
        /\ CallsIn(life[sent[p].client]) >= 2

----------------------------------------------------------------------------
\* Properties of ResolveToolPath (SpecResolve).

\* ResolveToolPath has been applied to probe and found a tool.
Resolved == resolved # NotCalled /\ resolved.err = ""

\* The key k itself and then its prefixes, the longest first, down to the root.
Upwards(k) ==
    [j \in 1..(Len(k) + 1) |-> Join(SubSeq(k, 1, Len(k) + 1 - j))]

\* C13 (as claimed): the tool returned is named like the last segment of
\* the path and comes from the first node hosting a tool of that name among
\* the node at the path itself and the nodes at its prefixes, the longest
\* first, the root last; when there is no such node the result is NotFound.
C13_LastSegmentFirstHost ==
    resolved # NotCalled =>
        LET last == probe[Len(probe)]
            hits == {j \in DOMAIN Upwards(probe) : HasTool(hier, Upwards(probe)[j], last)}
        IN IF hits = {}
             THEN resolved = NotFound
             ELSE /\ resolved.err = ""
                  /\ resolved.name = last
                  /\ resolved.host = Upwards(probe)[Min(hits)]

\* C14 (as claimed): the server name returned is the tool's own server field
\* when that is not empty, otherwise the mcp_server of the nearest node, from
\* the hosting node up to the root, that declares one, otherwise "".
C14_ServerInherited ==
    Resolved =>
        LET up == IF resolved.host = Slash THEN Upwards(EmptyStr)
                  ELSE Upwards(resolved.host)
            decl == {j \in DOMAIN up :
                       up[j] \in DOMAIN hier /\ hier[up[j]].MCPServer # ""}
        IN resolved.server =
              IF resolved.tool.Server # "" THEN resolved.tool.Server
              ELSE IF decl # {} THEN hier[up[Min(decl)]].MCPServer
              ELSE ""

NamesConfiguredServers(h) ==
    \A k \in DOMAIN h : \A n \in DOMAIN h[k].Tools :
        h[k].Tools[n].Server \in DOMAIN ServerConfigs \cup {""}

----------------------------------------------------------------------------
\* Properties of LoadHierarchy and of the views over its store (SpecLoad).

\* The keys of the store other than the two keys of the root.
NonRootKeys == DOMAIN hier \ {EmptyStr, Slash}

\* The strict dot-prefixes of a key.
StrictPrefixes(k) == {SubSeq(k, 1, i) : i \in 1..(Len(k) - 1)}

\* C21 (as claimed): in a loaded store every strict dot-prefix of every
\* non-root key is a key, and get_tools_in_category succeeds on it.
C21_NoOrphanPaths ==
    load = "ok" =>
        /\ \A k \in NonRootKeys : StrictPrefixes(k) \subseteq DOMAIN hier
        /\ (view # NotViewed /\ \E k \in NonRootKeys : probe \in StrictPrefixes(k))
              => view.err = ""

\* C22 (as claimed): in a loaded store the keys "" and "/" hold the same
\* node, the one of the top-level root.json, whatever else the directory
\* holds.
C22_RootUnderBothKeys ==
    load = "ok" =>
        /\ hier[EmptyStr] = hier[Slash]
        /\ hier[EmptyStr] = disk[RootFile].node

\* HandleGetToolsInCategory has returned a view.
Viewed == load = "ok" /\ view # NotViewed /\ view.err = ""

\* The path one level below path p with last segment c.
Below(p, c) == IF p = EmptyStr THEN <<c>> ELSE p \o <<c>>

\* The segments c for which the path one level below p is a non-root key.
ChildSegments(p) ==
    {k[Len(k)] : k \in {x \in NonRootKeys : x = Below(p, x[Len(x)])}}

\* C23 (as claimed): the children of a view are exactly the segments that
\* name a node one level below the viewed path; no key of the root itself
\* is among them.
C23_ChildrenAreKeysBelow ==
    Viewed => DOMAIN view.children = ChildSegments(view.path)

\* The nodes one level below p, and those of them that have tools (leaves).
ChildKeys(p) == {Below(p, c) : c \in ChildSegments(p)}
LeafKeys(p) == {k \in ChildKeys(p) : DOMAIN hier[k].Tools # {}}

\* C24 (as claimed): the view of a level without direct tools, the root
\* included, lists every tool of every leaf child when all its children are
\* leaves, and no tool when one of its children is a branch.
C24_LeafToolsAggregated ==
    (Viewed /\ DOMAIN hier[view.path].Tools = {}) =>
        IF LeafKeys(view.path) = ChildKeys(view.path)
          THEN \A k \in LeafKeys(view.path) : \A n \in DOMAIN hier[k].Tools :
                  n \in DOMAIN view.tools /\ view.tools[n] = k
          ELSE view.tools = << >>

\* The node whose tool the view lists under the name n: the viewed node for
\* a direct tool, the leaf child at the listed tool_path for an aggregated one.
ListedFrom(n) ==
    IF DOMAIN hier[view.path].Tools # {} THEN view.path ELSE view.tools[n]

\* C25 (as claimed): the tool_path a view lists for a tool resolves, and it
\* resolves to the tool definition it was listed with.
C25_ListedPathResolves ==
    (Viewed /\ listed # "") =>
        /\ resolved.err = ""
        /\ resolved.name = listed
        /\ resolved.tool = hier[ListedFrom(listed)].Tools[listed]

\* Every response HandleGetToolsInCategory can give for path p is a view.
Navigable(p) == \A v \in HandleGetToolsInCategory(hier, p) : v.err = ""

\* C26 (as claimed): after a view of the path X as the caller gave it, the
\* path X.c (c when X is the root) of every listed child c has a view too.
C26_ChildOfGivenPath ==
    Viewed =>
        \A c \in DOMAIN view.children :
            Navigable(IF probe \in {EmptyStr, Slash} THEN <<c>> ELSE probe \o <<c>>)

\* C26 (amended): after a view, the path of every listed child c, built
\* from the path field of the view (the given path without leading and
\* trailing dots, "" for the root), has a view too.
C26_ChildOfViewPath ==
    Viewed => \A c \in DOMAIN view.children : Navigable(Below(view.path, c))

\* C26 witness: a node other than the root was viewed through a path with a
\* leading or trailing dot and lists a child.
C26_Witness ==
    /\ Viewed
    /\ view.path # EmptyStr
    /\ probe # view.path
    /\ DOMAIN view.children # {}

\* The canonical form of the path p a caller gives: "/" stands for "", and
\* q is p without its leading and trailing dots (as a set: one element).
Canonical(p) ==
    IF p = Slash THEN {EmptyStr}
    ELSE {q \in {SubSeq(p, i, j) : i, j \in 1..Len(p)} :
            /\ Len(q) >= 1
            /\ Len(q) > 1 => (q[1] # "" /\ q[Len(q)] # "")
            /\ \E i \in 1..(Len(p) - Len(q) + 1) :
                  /\ q = SubSeq(p, i, i + Len(q) - 1)
                  /\ \A k \in 1..Len(p) :
                        (k < i \/ k > i + Len(q) - 1) => p[k] = ""}

\* HandleGetToolsInCategory has returned for a path that names no node.
ViewedNoNode ==
    /\ load = "ok"
    /\ view # NotViewed
    /\ Canonical(probe) \cap DOMAIN hier = {}

\* C27 (as claimed): for a path that names no node the call returns a
\* not-found error, and the message holds the path as the caller gave it.
C27_ErrorNamesGivenPath ==
    ViewedNoNode => (view.err = "category not found" /\ view.path = probe)

\* C27 (amended): for a path that names no node the call returns a
\* not-found error, and the message holds the canonical form of the path;
\* a path whose canonical form is a key gets a view.
C27_ErrorNamesCanonicalPath ==
    (load = "ok" /\ view # NotViewed) =>
        /\ ViewedNoNode =>
              (view.err = "category not found" /\ view.path \in Canonical(probe))
        /\ ~ViewedNoNode => view.err = ""

\* C27 witness: a path with a leading or trailing dot that names no node
\* got the error.
C27_Witness ==
    /\ ViewedNoNode
    /\ view.err = "category not found"
    /\ view.path # probe

\* The key the discovery rule gives a file in directory D with name F: D in
\* dot form when F is the name of D (the hierarchy directory for a top-level
\* file), otherwise D in dot form followed by F, just F when D is empty.
RuleKey(f) ==
    LET base == IF f.dir = << >> THEN HierDirName ELSE f.dir[Len(f.dir)]
    IN IF f.name = base THEN (IF f.dir = << >> THEN EmptyStr ELSE f.dir)
       ELSE f.dir \o <<f.name>>

\* The well-formed files of the directory other than the top-level root.json.
WellFormedFiles == {x \in DOMAIN Files \ {RootFile} : disk[x].state = "ok"}

\* C28 (as claimed): every well-formed file other than the top-level
\* root.json, whatever its name and depth, has a node in the loaded store
\* under the key the discovery rule gives it.
C28_EveryFileHasItsKey ==
    load = "ok" => \A x \in WellFormedFiles : RuleKey(Files[x]) \in DOMAIN hier

\* C29 (as claimed): no two files of a directory have the same key: while
\* the directory is walked, no file's node takes the place of a node that
\* is already in the store.
C29_NoNodeReplaced ==
    [][load = "walk" => \A k \in DOMAIN hier : hier'[k] = hier[k]]_vars

\* C30 (as claimed): with a well-formed root.json the load succeeds however
\* many other files are malformed, no node comes from a malformed file and
\* the node of every well-formed file is in the store; without a well-formed
\* root.json the load fails and there is no store.
C30_BestEffortLoad ==
    /\ load \in {"walk", "ok"} => disk[RootFile].state = "ok"
    /\ load = "failed" => (disk[RootFile].state # "ok" /\ hier = << >>)
    /\ load = "ok" =>
          /\ \A k \in DOMAIN hier :
                \E x \in DOMAIN Files :
                    disk[x].state = "ok" /\ hier[k] = disk[x].node
          /\ \A x \in WellFormedFiles :
                \E k \in DOMAIN hier : hier[k] = disk[x].node

----------------------------------------------------------------------------
\* Properties of the per-server lazy mode (SpecLazy).

\* How often the item was added to the outward server.
TimesAdded(item) == Cardinality({i \in 1..Len(added) : added[i] = item})

Returned(p) == act[p].pc = "returned"

\* C32: however the calls of activate_<name> interleave or follow each
\* other, no stored tool, prompt, resource or template is ever added to the
\* outward server twice; a call that has returned answered "activated": true,
\* and by then every stored item has been added exactly once.
C32_ActivatedExactlyOnce ==
    /\ \A i \in 1..Len(Flat(stored)) : TimesAdded(Flat(stored)[i]) <= 1
    /\ \A p \in Callers :
          Returned(p) =>
             /\ act[p].ack.activated = "true"
             /\ \A i \in 1..Len(Flat(stored)) : TimesAdded(Flat(stored)[i]) = 1

\* Two calls have returned, one that ran the registration of two tools, a
\* prompt, a resource and a template and one that found it done, while a
\* third call is arriving.
C32_Witness ==
    /\ Len(Flat(stored)) = 5
    /\ \E p, q, r \in Callers :
          /\ Returned(p) /\ act[p].ack.toolCount = 2
          /\ Returned(q) /\ act[q].ack.toolCount = 0
          /\ act[r].pc = "once"

\* A call waits in Do while the registration of another one is half done.
C32_Blocked ==
    \E p, q \in Callers :
        /\ act[p].pc = "do" /\ act[p].n = 1
        /\ act[q].pc = "once"

Range(f) == {f[i] : i \in DOMAIN f}

NeverCalled(p) == act[p].pc = "idle" /\ act[p].ack = NoAck

\* Every stored downstream tool together with the meta-tool.
FullListing == {MetaToolName(LazyServer)} \cup Range(stored.tools)

\* C33: while the outward server answers and no activate_<name> call has
\* arrived, tools/list gives the meta-tool alone (and nothing else is listed
\* before the server answers); once a call has returned, it gives every
\* stored downstream tool and the meta-tool, and keeps doing so: no tool,
\* the meta-tool included, ever leaves the listing.
C33_MetaToolThenAll ==
    /\ [](/\ (\A p \in Callers : NeverCalled(p)) =>
                /\ outward \subseteq {MetaToolName(LazyServer)}
                /\ boot = "serving" => outward = {MetaToolName(LazyServer)}
          /\ (\E p \in Callers : Returned(p)) => outward = FullListing)
    /\ [][/\ outward \subseteq outward'
          /\ (boot = "serving" /\ outward = FullListing) => outward' = FullListing]_vars

\* A call has returned and the listing has grown from the meta-tool alone to
\* three tools, while another caller has not called yet.
C33_Witness ==
    /\ Len(stored.tools) = 2
    /\ Cardinality(outward) = 3
    /\ \E p, q \in Callers : Returned(p) /\ NeverCalled(q)

\* The server answers, no call has arrived, two tools are stored.
C33_BeforeActivation ==
    /\ boot = "serving"
    /\ Len(stored.tools) = 2
    /\ \A p \in Callers : NeverCalled(p)
    /\ outward = {MetaToolName(LazyServer)}

----------------------------------------------------------------------------
\* Further properties of the registry and of the ping task (Spec).

LifecycleSteps == {"construct", "start", "initialize", "insert", "ping_spawn"}

IsLifecycleStep(op) == op \in LifecycleSteps

\* The successful lifecycle steps taken on client c so far, in order.
Lifecycle(c) == SelectSeq(life[c], IsLifecycleStep)

\* The steps a client of the transport goes through.
StepsOf(transport) ==
    IF transport = "stdio"
      THEN <<"construct", "initialize", "insert">>
      ELSE <<"construct", "start", "initialize", "insert", "ping_spawn">>

IsPrefix(s, t) == Len(s) <= Len(t) /\ SubSeq(t, 1, Len(s)) = s

\* C34: the steps taken on a client are a beginning of construct, Start (not
\* for stdio), Initialize, insert, ping spawn (not for stdio), so each
\* happens at most once and in this order; a client is in the map exactly
\* when it was inserted, which is only after its Initialize succeeded, and a
\* ping task exists only for a client in the map.
C34_LifecycleOrder ==
    \A c \in Callers :
        /\ life[c] # << >> => IsPrefix(Lifecycle(c), StepsOf(ServerConfigs[arg[c]]))
        /\ c \in Registered <=> Has(c, "insert")
        /\ c \in Registered => Has(c, "initialize") /\ ~Has(c, "initialize_err")
        /\ ping[c].state # "none" => c \in Registered /\ Has(c, "ping_spawn")

\* A stdio client and an SSE client have both gone through all their steps.
C34_Witness ==
    \E c, d \in Registered :
        /\ Lifecycle(c) = <<"construct", "initialize", "insert">>
        /\ Lifecycle(d) = <<"construct", "start", "initialize", "insert", "ping_spawn">>
        /\ ping[d].state = "running"

\* GetOrLoadServer has returned to caller p.
HasReturned(p) == result[p].kind # "none"

\* C35: when GetOrLoadServer returns, the client it constructed is in the
\* map or has been closed.
C35_NoOrphanClient ==
    \A p \in Callers :
        (HasReturned(p) /\ Has(p, "construct")) => (p \in Registered \/ Has(p, "close"))


\* C37: once ServerRegistry.Close has returned, no ping is sent on a client
\* it closed: the only step its ping task still takes is to stop.
C37_NoPingAfterClose ==
    [][\A c \in Callers :
          (closed /\ Has(c, "close") /\ ping'[c] # ping[c]) =>
              ping'[c].state = "stopped"]_vars

\* The number of failed pings at the end of the outcomes, a final ctx error
\* left aside.
RECURSIVE FailedInARow(_)
FailedInARow(outcomes) ==
    IF outcomes = << >> THEN 0
    ELSE LET last == outcomes[Len(outcomes)]
             front == SubSeq(outcomes, 1, Len(outcomes) - 1)
         IN IF last = "ping_ctx" THEN FailedInARow(front)
            ELSE IF last = "ping_err" THEN 1 + FailedInARow(front)
            ELSE 0

\* C39: the failure counter of a ping task is the number of failed pings
\* since the last successful one, 0 right after a success; a ping that
\* returns the ctx error is the last ping sent on the client, it stops the
\* task and is not counted; a stopped task sends no ping.
C39_CounterIsFailuresInARow ==
    /\ [](\A c \in Callers :
            /\ ping[c].fails = FailedInARow(Pings(c))
            /\ \A i \in 1..Len(Pings(c)) :
                  Pings(c)[i] = "ping_ctx" =>
                      i = Len(Pings(c)) /\ ping[c].state = "stopped")
    /\ [][\A c \in Callers :
            ping[c].state = "stopped" => (ping'[c] = ping[c] /\ Pings(c)' = Pings(c))]_vars

\* A ping failed, one succeeded, one failed, and a ping then ended the task
\* with the ctx error: the counter is 1.
C39_Witness ==
    \E c \in Callers :
        /\ Pings(c) = <<"ping_err", "ping_ok", "ping_err", "ping_ctx">>
        /\ ping[c].fails = 1
        /\ ping[c].state = "stopped"

----------------------------------------------------------------------------
\* Further properties of execute_tool (SpecSession).

\* C36: the lazy initialization in GetOrLoadServer and the downstream
\* CallTool of one execute_tool call together take no more than 15 s: while
\* the call is in flight, no more than 15 s have passed since the request
\* arrived.
C36_WholeCallWithin15 ==
    \A p \in Callers : pc[p] = "call" => now <= Timeout

----------------------------------------------------------------------------
\* Properties of repeated navigation (SpecRepeat).

\* C38: over one loaded store, all get_tools_in_category calls with one path
\* return the same view (the same children, tools and tool_path of every
\* tool), also when two leaf children declare a tool of the same name; the
\* store is not written, and ResolveToolPath returns the same tool for the
\* path whenever it is called.
C38_RepeatedViewsIdentical ==
    /\ [](/\ \A p, q \in Callers :
                (reply[p] # NoReply /\ reply[q] # NoReply) => reply[p] = reply[q]
          /\ resolved # NotCalled => resolved = ResolveToolPath(hier, probe))
    /\ [][hier' = hier]_vars
====
